---- MODULE Spec2Model ----
(***************************************************************************)
(* Model of cheriplot's address-space machinery:                           *)
(*   - Range / RangeSet            (cheriplot/core/addrspace_axes.py)      *)
(*   - OmitRangeSetBuilder         (cheriplot/plot/patch.py)               *)
(*   - AddressMapOmitBuilder       (cheriplot/plot/provenance/address_map) *)
(*   - AddressSpaceCollapseTransform (cheriplot/core/addrspace_axes.py)    *)
(*   - AddressSpaceAxes filter lists (cheriplot/core/addrspace_axes.py)    *)
(*   - CheriCap / NodeData         (cheriplot/core/provenance.py)          *)
(*                                                                         *)
(* Addresses are integers; np.inf is the integer Inf, larger than every    *)
(* address the model uses, with the arithmetic of infinity written out in  *)
(* Size.  Floating point numbers are exact rationals <<num, den>>.         *)
(***************************************************************************)
EXTENDS Integers, Sequences, FiniteSets, TLC

VARIABLES
    ranges,       \* OmitRangeSetBuilder.ranges: list of Range objects
    size_limit,   \* OmitRangeSetBuilder.size_limit
    split_size,   \* AddressMapOmitBuilder.split_size
    submitted,    \* history: every range handed to _update_regions so far
    bcall,        \* history: the last builder call (operation, argument, list before)
    ncalls,       \* history: number of builder calls made
    objs,         \* the AddressSpaceCollapseTransform objects, in creation order
    tcall,        \* history: the last transform call (operation, object, input, result)
    nupdates,     \* history: number of update_range calls made, up to MaxUpdates
    parent,       \* history: the object each transform was made from by inverted()
    omit_filters,     \* AddressSpaceAxes.omit_filters: list of Range objects
    include_filters,  \* AddressSpaceAxes.include_filters: list of Range objects
    acall,        \* history: the last call on the axes (operation, argument, lists before)
    naxes,        \* history: number of calls that changed the axes
    cap,          \* a CheriCap object
    ccall,        \* history: the last call on the capability
    deref,        \* NodeData.deref: the four columns of the dereference table
    dcalls,       \* history: the calls that added to the dereference table
    node,         \* the NodeData object the caller of from_operand holds
    fcall,        \* history: the last from_operand call (operand, outcome)
    patches,      \* ColorCodePatchBuilder of address_map.py: _bbox and the lines
    vpatches,     \* ColorCodePatchBuilder of addr_map.py: _bbox, lines, _node_map
    histogram_input,  \* CapSizeCreationPlot.build_dataset: histogram_input
    icall,        \* history: the last call of a consumer on a node
    pass,         \* the loop over the nodes: running or ended by an exception
    vertices,     \* the provenance graph: the NodeData of each vertex
    edges,        \* the provenance graph: the derivation edges <<u, v>>
    gcall,        \* history: the last event of the graph construction
    order         \* history: the ranges handed to _update_regions, in call order

bvars == <<ranges, size_limit, split_size, submitted, bcall, ncalls>>

tvars == <<objs, tcall, nupdates, parent>>

avars == <<omit_filters, include_filters, acall, naxes>>

pvars == <<cap, ccall, deref, dcalls>>

ovars == <<node, fcall>>

cvars == <<patches, vpatches, histogram_input, icall, pass>>

gvars == <<vertices, edges, gcall>>

nvars == <<ovars, cvars, gvars, order>>

vars == <<ranges, size_limit, split_size, submitted, bcall, ncalls,
          objs, tcall, nupdates, parent,
          omit_filters, include_filters, acall, naxes,
          cap, ccall, deref, dcalls,
          node, fcall,
          patches, vpatches, histogram_input, icall, pass,
          vertices, edges, gcall,
          order>>

----------------------------------------------------------------------------
(* Bounds of the model *)

\* builder inputs are drawn from the page boundaries 0 .. MaxPages
MaxPages == 3
\* number of builder calls in one run
MaxCalls == 3
\* partitions handed to update_range are cut at the addresses 1 .. MaxCut
MaxCut == 3
\* number of transform objects (the scale's transform and inverted handles)
MaxObjs == 3
\* number of update_range calls in one run with inverted handles
MaxUpdates == 1
\* lists of ranges of any type are cut at the addresses 1 .. MaxScanCut
MaxScanCut == 2
\* number of calls in one run that change the filter lists of the axes
MaxAxesCalls == 3
\* base and length of a capability lie within NearEdge of 0 or of MAX_ADDR
NearEdge == 1
\* number of entries added to the dereference table of a node
MaxDerefs == 3

\* a pass of the consumers goes through at most MaxNodes nodes
MaxNodes == 2

\* the graph holds at most MaxVertices vertices
MaxVertices == 3

\* at most MaxOrder region updates are followed in their order
MaxOrder == 3

----------------------------------------------------------------------------
(* Program constants *)

T_OMIT == 0
T_KEEP == 1
T_UNKN == -1

\* np.inf
Inf == 1000000000

\* self.size_limit = 2**12
DefaultSizeLimit == 4096

----------------------------------------------------------------------------
(* Range *)

Min(a, b) == IF a <= b THEN a ELSE b
Max(a, b) == IF a >= b THEN a ELSE b

\* a constructor that stores its arguments in the order given
RangeAsGiven(start, end, rtype) ==
    [start |-> start, end |-> end, rtype |-> rtype]

\* Range.__init__: start <= end always
Range(start, end, rtype) ==
    [start |-> Min(start, end), end |-> Max(start, end), rtype |-> rtype]

\* Range.size: end - start, where inf - x = inf
Size(r) == IF r.end = Inf THEN Inf ELSE r.end - r.start

\* a test that takes ranges meeting at a boundary for overlapping
OverlapsClosed(r, target) == r.start <= target.end /\ r.end >= target.start

\* the test of RangeSet.match_overlap_range and first_overlap_range
Overlaps(r, target) == r.start < target.end /\ r.end > target.start

\* RangeSet.match_overlap_range, as the positions of the matching members
RECURSIVE MatchFrom(_, _, _)
MatchFrom(rs, target, i) ==
    IF i > Len(rs) THEN <<>>
    ELSE (IF Overlaps(rs[i], target) THEN <<i>> ELSE <<>>)
         \o MatchFrom(rs, target, i + 1)

match_overlap_range(rs, target) == MatchFrom(rs, target, 1)

\* del list[i]
Remove(rs, i) == SubSeq(rs, 1, i - 1) \o SubSeq(rs, i + 1, Len(rs))

----------------------------------------------------------------------------
(* OmitRangeSetBuilder._update_regions *)

\* the remainder of a split is kept: r_left.size >= self.size_limit
KeepRemainderStrict(r, limit) == Size(r) > limit
KeepRemainder(r, limit) == Size(r) >= limit

\* a resized range is dropped: r.size < self.size_limit
DropResizedNever(r, limit) == FALSE
DropResized(r, limit) == Size(r) < limit

\* case (i): node_range inside r, split r
SplitKeepsR(rs, i, nr, limit) ==
    LET r == rs[i]
        r_left == Range(r.start, nr.start, T_OMIT)
        r_right == Range(nr.end, r.end, T_OMIT)
    IN  rs
        \o (IF KeepRemainder(r_left, limit) THEN <<r_left>> ELSE <<>>)
        \o (IF KeepRemainder(r_right, limit) THEN <<r_right>> ELSE <<>>)
SplitKeepsSlivers(rs, i, nr, limit) ==
    LET r == rs[i]
        r_left == Range(r.start, nr.start, T_OMIT)
        r_right == Range(nr.end, r.end, T_OMIT)
    IN  Remove(rs, i) \o <<r_left>> \o <<r_right>>
Split(rs, i, nr, limit) ==
    LET r == rs[i]
        r_left == Range(r.start, nr.start, T_OMIT)
        r_right == Range(nr.end, r.end, T_OMIT)
    IN  Remove(rs, i)
        \o (IF KeepRemainder(r_left, limit) THEN <<r_left>> ELSE <<>>)
        \o (IF KeepRemainder(r_right, limit) THEN <<r_right>> ELSE <<>>)

\* case (iii): r.start = node_range.end, assigned in place
ResizeStartKeepsStart(r, nr) == r
ResizeStart(r, nr) == [r EXCEPT !.start = nr.end]

\* case (iv): r.end = node_range.start, assigned in place
ResizeEndKeepsEnd(r, nr) == r
ResizeEnd(r, nr) == [r EXCEPT !.end = nr.start]

\* One pass of the loop body for the member at position i of the list.
\* The result is the new list and whether the member was deleted.
UpdateOne(rs, i, nr, limit) ==
    LET r == rs[i] IN
    IF nr.start >= r.start /\ nr.end <= r.end
    THEN [rs |-> Split(rs, i, nr, limit), deleted |-> TRUE]
    ELSE IF nr.start <= r.start /\ nr.end >= r.end
    THEN [rs |-> Remove(rs, i), deleted |-> TRUE]
    ELSE IF nr.start < r.start
    THEN LET r2 == ResizeStart(r, nr) IN
         IF DropResized(r2, limit)
         THEN [rs |-> Remove(rs, i), deleted |-> TRUE]
         ELSE [rs |-> [rs EXCEPT ![i] = r2], deleted |-> FALSE]
    ELSE IF nr.end > r.end
    THEN LET r2 == ResizeEnd(r, nr) IN
         IF DropResized(r2, limit)
         THEN [rs |-> Remove(rs, i), deleted |-> TRUE]
         ELSE [rs |-> [rs EXCEPT ![i] = r2], deleted |-> FALSE]
    ELSE [rs |-> rs, deleted |-> FALSE]

\* The loop over the members that overlapped node_range when the call began.
\* overlap holds their positions in the list at that time; a member deleted
\* earlier in the loop moves the later ones down by one, new members are
\* appended at the end.
RECURSIVE UpdateLoop(_, _, _, _, _, _)
UpdateLoop(rs, overlap, k, ndeleted, nr, limit) ==
    IF k > Len(overlap) THEN rs
    ELSE LET step == UpdateOne(rs, overlap[k] - ndeleted, nr, limit)
         IN  UpdateLoop(step.rs, overlap, k + 1,
                        IF step.deleted THEN ndeleted + 1 ELSE ndeleted,
                        nr, limit)

update_regions(rs, nr, limit) ==
    UpdateLoop(rs, match_overlap_range(rs, nr), 1, 0, nr, limit)

----------------------------------------------------------------------------
(* AddressMapOmitBuilder.inspect_range *)

\* the ranges inspect_range hands to _update_regions, in call order
InspectRangeNeverSplits(node_range, limit, split) == << node_range >>
InspectRangeCalls(node_range, limit, split) ==
    IF Size(node_range) > split
    THEN << Range(node_range.start, node_range.start + limit, T_KEEP),
            Range(node_range.end - limit, node_range.end, T_KEEP) >>
    ELSE << node_range >>

RECURSIVE ApplyCalls(_, _, _, _)
ApplyCalls(rs, calls, k, limit) ==
    IF k > Len(calls) THEN rs
    ELSE ApplyCalls(update_regions(rs, calls[k], limit), calls, k + 1, limit)

SeqRange(s) == {s[i] : i \in DOMAIN s}

----------------------------------------------------------------------------
(* Numbers of the transform: exact rationals <<num, den>> with den > 0 in    *)
(* lowest terms; <<1, 0>> is inf and <<0, 0>> is nan.                        *)

Abs(n) == IF n < 0 THEN -n ELSE n

RECURSIVE GCD(_, _)
GCD(a, b) == IF b = 0 THEN a ELSE GCD(b, a % b)

Q(n, d) ==
    LET g == GCD(Abs(n), Abs(d))
        sgn == IF d < 0 THEN -1 ELSE 1
    IN  <<(sgn * n) \div g, (sgn * d) \div g>>

QInt(n) == <<n, 1>>
QInf == <<1, 0>>
QNaN == <<0, 0>>
QFinite(q) == q[2] # 0

QAdd(p, q) ==
    IF ~QFinite(p) \/ ~QFinite(q)
    THEN (IF p = QNaN \/ q = QNaN THEN QNaN ELSE QInf)
    ELSE Q(p[1] * q[2] + q[1] * p[2], p[2] * q[2])
QSub(p, q) == Q(p[1] * q[2] - q[1] * p[2], p[2] * q[2])
QMul(p, q) == Q(p[1] * q[1], p[2] * q[2])
QDiv(p, q) == Q(p[1] * q[2], p[2] * q[1])
\* p > q; a comparison with inf on the right or with nan is false
QGreater(p, q) == QFinite(p) /\ QFinite(q) /\ p[1] * q[2] > q[1] * p[2]

\* r.size * scale, where r.size may be inf
SizeTimes(r, scale) ==
    IF Size(r) = Inf
    THEN (IF scale[1] = 0 THEN QNaN ELSE QInf)
    ELSE QMul(QInt(Size(r)), scale)

----------------------------------------------------------------------------
(* AddressSpaceCollapseTransform *)

\* reduce(lambda acc, r: acc + r.size if r.size < np.inf else acc, ..., 0)
\* over the members of the given type
RECURSIVE FiniteSizeFrom(_, _, _)
FiniteSizeFrom(rs, rtype, k) ==
    IF k > Len(rs) THEN 0
    ELSE (IF rs[k].rtype = rtype /\ Size(rs[k]) < Inf THEN Size(rs[k]) ELSE 0)
         + FiniteSizeFrom(rs, rtype, k + 1)

keep_size(rs) == FiniteSizeFrom(rs, T_KEEP, 1)
omit_size(rs) == FiniteSizeFrom(rs, T_OMIT, 1)

\* 0.05 * keep_size / omit_size
TenPercentOfKeep(keep, omit) == Q(keep, 10 * omit)
FivePercentOfKeep(keep, omit) == Q(keep, 20 * omit)

\* the omit_scale update_range leaves in the object
NewOmitScale(range_list, old_scale) ==
    IF omit_size(range_list) # 0
    THEN FivePercentOfKeep(keep_size(range_list), omit_size(range_list))
    ELSE old_scale

\* r_scale = 1 if r.rtype == Range.T_KEEP else self.omit_scale
RScaleKeepOnly(r, omit_scale) == QInt(1)
RScale(r, omit_scale) == IF r.rtype = T_KEEP THEN QInt(1) ELSE omit_scale

\* _precompute_offsets: the SortedDict as a function start -> <<x_collapsed,
\* r_scale>>; a later member with the same start replaces the earlier entry
RECURSIVE PrecomputeFrom(_, _, _, _, _)
PrecomputeFrom(rs, omit_scale, k, x_collapsed, offsets) ==
    IF k > Len(rs) THEN offsets
    ELSE LET r == rs[k]
             r_scale == RScale(r, omit_scale)
             entry == <<x_collapsed, r_scale>>
             next == [key \in DOMAIN offsets \cup {r.start} |->
                        IF key = r.start THEN entry ELSE offsets[key]]
         IN  PrecomputeFrom(rs, omit_scale, k + 1,
                            QAdd(x_collapsed, SizeTimes(r, r_scale)), next)

precompute_offsets(rs, omit_scale) ==
    PrecomputeFrom(rs, omit_scale, 1, QInt(0), << >>)

\* SortedDict.bisect_left: the number of keys below x
bisect_left(offsets, x) == Cardinality({key \in DOMAIN offsets : key < x})

\* SortedDict.iloc[i]: the i-th key in ascending order, counted from the end
\* for a negative i
iloc(offsets, i) ==
    LET n == Cardinality(DOMAIN offsets)
        j == IF i < 0 THEN i + n ELSE i
    IN  CHOOSE key \in DOMAIN offsets :
            Cardinality({other \in DOMAIN offsets : other < key}) = j

\* a map that leaves out the offset at which the range of the address begins
GetXWithoutOffset(obj, x_dataspace) ==
    IF x_dataspace < 0 THEN QInt(x_dataspace)
    ELSE LET offsets == obj.precomputed_offsets
             base_idx == bisect_left(offsets, x_dataspace)
             key == IF Cardinality(DOMAIN offsets) = base_idx
                       \/ iloc(offsets, base_idx) > x_dataspace
                    THEN iloc(offsets, base_idx - 1)
                    ELSE x_dataspace
         IN  QMul(QInt(x_dataspace - key), offsets[key][2])

\* get_x on an address
get_x(obj, x_dataspace) ==
    IF x_dataspace < 0 THEN QInt(x_dataspace)
    ELSE LET offsets == obj.precomputed_offsets
             base_idx == bisect_left(offsets, x_dataspace)
             key == IF Cardinality(DOMAIN offsets) = base_idx
                       \/ iloc(offsets, base_idx) > x_dataspace
                    THEN iloc(offsets, base_idx - 1)
                    ELSE x_dataspace
         IN  QAdd(offsets[key][1],
                  QMul(QInt(x_dataspace - key), offsets[key][2]))

Ok(q) == [ok |-> TRUE, val |-> q, err |-> "none"]
Raise(e) == [ok |-> FALSE, val |-> QNaN, err |-> e]

\* get_x_inv: the scan over target_ranges
RECURSIVE GetXInvFrom(_, _, _, _, _, _)
GetXInvFrom(rs, omit_scale, x, k, x_current, x_inverse) ==
    IF k > Len(rs) THEN Ok(x_inverse)
    ELSE LET r == rs[k] IN
         IF r.rtype = T_KEEP
         THEN IF QGreater(x, QAdd(x_current, SizeTimes(r, QInt(1))))
              THEN GetXInvFrom(rs, omit_scale, x, k + 1,
                               QAdd(x_current, QInt(Size(r))),
                               QAdd(x_inverse, QInt(Size(r))))
              ELSE Ok(QAdd(x_inverse, QSub(x, x_current)))
         ELSE IF r.rtype = T_OMIT
         THEN LET scaled_size == SizeTimes(r, omit_scale) IN
              IF QGreater(x, QAdd(x_current, scaled_size))
              THEN GetXInvFrom(rs, omit_scale, x, k + 1,
                               QAdd(x_current, scaled_size),
                               QAdd(x_inverse, QInt(Size(r))))
              ELSE IF omit_scale[1] = 0
              THEN Raise("ZeroDivisionError")
              ELSE Ok(QAdd(x_inverse, QDiv(QSub(x, x_current), omit_scale)))
         ELSE Raise("ValueError")

\* a scan that takes a range of any other type for an OMIT range
GetXInvUnknownAsOmit(obj, x) ==
    GetXInvFrom([k \in DOMAIN obj.target_ranges |->
                    IF obj.target_ranges[k].rtype = T_KEEP
                    THEN obj.target_ranges[k]
                    ELSE [obj.target_ranges[k] EXCEPT !.rtype = T_OMIT]],
                obj.omit_scale, x, 1, QInt(0), QInt(0))
get_x_inv(obj, x) ==
    GetXInvFrom(obj.target_ranges, obj.omit_scale, x, 1, QInt(0), QInt(0))

\* transform_x on an address or a display coordinate given as a rational
transform_x(obj, x) ==
    IF obj.inverse THEN get_x_inv(obj, x)
    ELSE IF x[2] = 1 THEN Ok(get_x(obj, x[1]))
    ELSE Raise("unmodelled")

\* __init__
NewTransform ==
    LET target_ranges == << Range(0, Inf, T_KEEP) >> IN
    [ target_ranges |-> target_ranges,
      omit_scale |-> QInt(1),
      precomputed_offsets |-> precompute_offsets(target_ranges, QInt(1)),
      inverse |-> FALSE ]

\* update_range
update_range(obj, range_list) ==
    LET scale == NewOmitScale(range_list, obj.omit_scale) IN
    [ obj EXCEPT !.target_ranges = range_list,
                 !.omit_scale = scale,
                 !.precomputed_offsets = precompute_offsets(range_list, scale) ]

\* inverted
inverted(obj) ==
    [ NewTransform EXCEPT !.target_ranges = obj.target_ranges,
                          !.omit_scale = obj.omit_scale,
                          !.inverse = ~obj.inverse ]

----------------------------------------------------------------------------
(* The builder as a state machine *)

\* addresses the callers pass: page boundaries and two addresses inside
\* the first page
Addrs == {k * DefaultSizeLimit : k \in 0..MaxPages} \cup {1000, 2000}

NoCall == [op |-> "none", arg |-> Range(0, 0, T_UNKN), calls |-> <<>>,
           before |-> <<>>]

\* OmitRangeSetBuilder.__init__ followed by AddressMapOmitBuilder.__init__
InitBuilder ==
    /\ ranges = << Range(0, Inf, T_OMIT) >>
    /\ size_limit = DefaultSizeLimit
    /\ split_size = 2 * DefaultSizeLimit
    /\ submitted = {}
    /\ bcall = NoCall
    /\ ncalls = 0

\* a direct call of _update_regions(node_range)
UpdateRegions(a, b) ==
    LET nr == Range(a, b, T_KEEP) IN
    /\ ncalls < MaxCalls
    /\ ranges' = update_regions(ranges, nr, size_limit)
    /\ submitted' = submitted \cup {nr}
    /\ bcall' = [op |-> "update_regions", arg |-> nr, calls |-> <<nr>>,
                 before |-> ranges]
    /\ ncalls' = ncalls + 1
    /\ UNCHANGED <<size_limit, split_size>>
    /\ UNCHANGED <<tvars, avars, pvars, nvars>>

\* inspect_range(node_range), as plot() calls it for a vm map entry
InspectRange(a, b) ==
    LET nr == Range(a, b, T_UNKN)
        calls == InspectRangeCalls(nr, size_limit, split_size)
    IN
    /\ ncalls < MaxCalls
    /\ ranges' = ApplyCalls(ranges, calls, 1, size_limit)
    /\ submitted' = submitted \cup SeqRange(calls)
    /\ bcall' = [op |-> "inspect_range", arg |-> nr, calls |-> calls,
                 before |-> ranges]
    /\ ncalls' = ncalls + 1
    /\ UNCHANGED <<size_limit, split_size>>
    /\ UNCHANGED <<tvars, avars, pvars, nvars>>

\* _update_regions(node_range), the calls being followed in their order
UpdateRegionsInOrder(a, b) ==
    LET nr == Range(a, b, T_KEEP) IN
    /\ Len(order) < MaxOrder
    /\ ranges' = update_regions(ranges, nr, size_limit)
    /\ submitted' = submitted \cup {nr}
    /\ bcall' = [op |-> "update_regions", arg |-> nr, calls |-> <<nr>>,
                 before |-> ranges]
    /\ ncalls' = ncalls + 1
    /\ order' = Append(order, nr)
    /\ UNCHANGED <<size_limit, split_size>>
    /\ UNCHANGED <<tvars, avars, pvars, ovars, cvars, gvars>>

NextBuilder ==
    \/ \E a \in Addrs, b \in Addrs : UpdateRegions(a, b)
    \/ \E a \in Addrs, b \in Addrs : InspectRange(a, b)

----------------------------------------------------------------------------
(* The transform as a state machine *)

\* the cut points of a partition, ascending
RECURSIVE SortedSeq(_)
SortedSeq(S) ==
    IF S = {} THEN <<>>
    ELSE LET m == CHOOSE x \in S : \A y \in S : x <= y
         IN  <<m>> \o SortedSeq(S \ {m})

\* complete partitions of [0, inf) in ascending order, as _map_omit hands
\* them to update_range: cut at a subset of 1 .. MaxCut, each member KEEP or
\* OMIT
PartitionsCutAt(S) ==
    LET bounds == <<0>> \o SortedSeq(S) \o <<Inf>>
        n == Len(bounds) - 1
    IN  { [i \in 1..n |-> Range(bounds[i], bounds[i + 1], ty[i])] :
            ty \in [1..n -> {T_KEEP, T_OMIT}] }

Partitions == UNION { PartitionsCutAt(S) : S \in SUBSET (1..MaxCut) }

\* addresses asked of the forward map
QueryAddrs == (-1)..(MaxCut + 1)

NoTCall == [op |-> "none", obj |-> 0, x |-> QInt(0), res |-> Ok(QInt(0)),
            prev |-> QInt(1), from |-> -1, made |-> 0]

\* AddressSpaceScale.__init__ creates the transform of the axis
InitTransform ==
    /\ objs = << NewTransform >>
    /\ tcall = NoTCall
    /\ nupdates = 0
    /\ parent = <<0>>

\* obj.update_range(range_list)
UpdateRange(o, range_list) ==
    /\ objs' = [objs EXCEPT ![o] = update_range(objs[o], range_list)]
    /\ tcall' = [NoTCall EXCEPT !.op = "update_range", !.obj = o,
                                !.prev = objs[o].omit_scale]
    /\ nupdates' = IF nupdates < MaxUpdates THEN nupdates + 1 ELSE nupdates
    /\ UNCHANGED parent
    /\ UNCHANGED <<bvars, avars, pvars, nvars>>

\* obj.get_x(address)
GetX(o, a) ==
    /\ tcall' = [NoTCall EXCEPT !.op = "get_x", !.obj = o, !.x = QInt(a),
                                !.res = Ok(get_x(objs[o], a))]
    /\ UNCHANGED <<objs, nupdates, parent>>
    /\ UNCHANGED <<bvars, avars, pvars, nvars>>

\* obj.get_x_inv(x) on the display coordinate the last get_x returned
GetXInv(o) ==
    /\ tcall.op = "get_x"
    /\ tcall.obj = o
    /\ tcall' = [NoTCall EXCEPT !.op = "get_x_inv", !.obj = o,
                                !.x = tcall.res.val, !.from = tcall.x[1],
                                !.res = get_x_inv(objs[o], tcall.res.val)]
    /\ UNCHANGED <<objs, nupdates, parent>>
    /\ UNCHANGED <<bvars, avars, pvars, nvars>>

\* handle = obj.inverted()
Inverted(o) ==
    /\ Len(objs) < MaxObjs
    /\ objs' = Append(objs, inverted(objs[o]))
    /\ tcall' = [NoTCall EXCEPT !.op = "inverted", !.obj = o,
                                !.made = Len(objs) + 1]
    /\ parent' = Append(parent, o)
    /\ UNCHANGED nupdates
    /\ UNCHANGED <<bvars, avars, pvars, nvars>>

\* h.transform_x(t.transform_x(a)) for a handle h = t.inverted()
RoundTrip(h, a) ==
    LET t == parent[h]
        x == IF t = 0 THEN Raise("none") ELSE transform_x(objs[t], QInt(a))
    IN
    /\ t # 0
    /\ x.ok
    /\ tcall' = [NoTCall EXCEPT !.op = "round_trip", !.obj = h, !.x = x.val,
                                !.from = a,
                                !.res = transform_x(objs[h], x.val)]
    /\ UNCHANGED <<objs, nupdates, parent>>
    /\ UNCHANGED <<bvars, avars, pvars, nvars>>

\* obj.transform_x(x) on an address
TransformX(o, a) ==
    /\ tcall' = [NoTCall EXCEPT !.op = "transform_x", !.obj = o, !.x = QInt(a),
                                !.res = transform_x(objs[o], QInt(a))]
    /\ UNCHANGED <<objs, nupdates, parent>>
    /\ UNCHANGED <<bvars, avars, pvars, nvars>>

----------------------------------------------------------------------------
(* AddressSpaceAxes: the filter lists and the partition built from them *)

DEFAULT_OMIT == 0
DEFAULT_INCLUDE == 1

\* the members of a list at the given positions, in that order
Members(rs, positions) == [k \in DOMAIN positions |-> rs[positions[k]]]

\* RangeSet.first_overlap_range, as the position of the member; 0 is None
RECURSIVE FirstFrom(_, _, _)
FirstFrom(rs, target, i) ==
    IF i > Len(rs) THEN 0
    ELSE IF Overlaps(rs[i], target) THEN i
    ELSE FirstFrom(rs, target, i + 1)

first_overlap_range(rs, target) == FirstFrom(rs, target, 1)

\* Range.__add__: no type is passed to the constructor
RangeAdd(a, b) == Range(Min(a.start, b.start), Max(a.end, b.end), T_UNKN)

\* Range.__contains__ on a Range argument
ContainsRange(r, target) == r.start <= target.end /\ target.start < r.end

\* Range.__contains__ on an address, the except branch
ContainsPoint(r, target) == r.start <= target /\ target < r.end

\* r.size > 0, where inf - inf is nan and nan > 0 is false
PositiveSize(r) == IF r.start = Inf THEN FALSE ELSE Size(r) > 0

\* list.sort(key=attrgetter("start")): stable
RECURSIVE InsertByStart(_, _)
InsertByStart(sorted, r) ==
    IF sorted = <<>> THEN <<r>>
    ELSE IF Head(sorted).start <= r.start
    THEN <<Head(sorted)>> \o InsertByStart(Tail(sorted), r)
    ELSE <<r>> \o sorted

RECURSIVE SortFrom(_, _, _)
SortFrom(rs, k, sorted) ==
    IF k > Len(rs) THEN sorted
    ELSE SortFrom(rs, k + 1, InsertByStart(sorted, rs[k]))

SortByStart(rs) == SortFrom(rs, 1, <<>>)

\* the target list when _filter raises for a range of the other list
RejectedAppends(target_list, target_range) == Append(target_list, target_range)
Rejected(target_list, target_range) == target_list

\* _filter: the target list afterwards and the exception raised, if any
filter(target_list, other_list, target_range) ==
    IF Len(match_overlap_range(other_list, target_range)) # 0
    THEN [list |-> Rejected(target_list, target_range), err |-> "ValueError"]
    ELSE LET existing_range == match_overlap_range(target_list, target_range) IN
         IF ~(Len(existing_range) < 2)
         THEN [list |-> target_list, err |-> "AssertionError"]
         ELSE IF Len(existing_range) = 0
         THEN [list |-> Append(target_list, target_range), err |-> "none"]
         ELSE [list |-> Append(target_list,
                               RangeAdd(target_list[existing_range[1]],
                                        target_range)),
               err |-> "none"]

\* the loop of _map_omit over the sorted regions and the last block
RECURSIVE MapRegionsFrom(_, _, _, _, _, _, _)
MapRegionsFrom(regions, k, map_range, rtype, c_rtype, mapped, complement) ==
    LET c_start == IF Len(mapped) > 0 THEN mapped[Len(mapped)].end
                   ELSE map_range.start
    IN
    IF k > Len(regions)
    THEN LET c_range == Range(c_start, map_range.end, c_rtype) IN
         [mapped |-> mapped,
          complement |-> IF PositiveSize(c_range)
                         THEN Append(complement, c_range) ELSE complement]
    ELSE LET r == regions[k]
             start == Max(map_range.start, r.start)
             end == Min(map_range.end, r.end)
             m_range == Range(start, end, rtype)
             c_range == Range(c_start, start, c_rtype)
         IN  MapRegionsFrom(regions, k + 1, map_range, rtype, c_rtype,
                 IF PositiveSize(m_range) THEN Append(mapped, m_range)
                 ELSE mapped,
                 IF PositiveSize(c_range) THEN Append(complement, c_range)
                 ELSE complement)

\* ranges = RangeSet(mapped + complement)
MappedOnly(mapped, complement) == mapped
MappedAndComplement(mapped, complement) == mapped \o complement

\* _map_omit
map_omit(omit, include, mode, map_range) ==
    LET from == IF mode = DEFAULT_INCLUDE THEN omit ELSE include
        rtype == IF mode = DEFAULT_INCLUDE THEN T_OMIT ELSE T_KEEP
        c_rtype == IF mode = DEFAULT_INCLUDE THEN T_KEEP ELSE T_OMIT
        regions == SortByStart(Members(from, match_overlap_range(from, map_range)))
        out == MapRegionsFrom(regions, 1, map_range, rtype, c_rtype, <<>>, <<>>)
    IN  SortByStart(MappedAndComplement(out.mapped, out.complement))

\* the loop of set_omit_ranges over the pairs; an exception ends it
RECURSIVE FilterAll(_, _, _, _)
FilterAll(omit, include, pairs, k) ==
    IF k > Len(pairs) THEN [list |-> omit, err |-> "none"]
    ELSE LET res == filter(omit, include,
                           Range(pairs[k][1], pairs[k][2], T_OMIT))
         IN  IF res.err # "none" THEN res
             ELSE FilterAll(res.list, include, pairs, k + 1)

\* OmitRangeSetBuilder.get_omit_ranges
get_omit_ranges(rs) == [i \in DOMAIN rs |-> <<rs[i].start, rs[i].end>>]

----------------------------------------------------------------------------
(* The axes as a state machine *)

\* addresses of the filter requests and of the overlap tests
FilterAddrs == {0, 9, 10, 20}

NoACall == [op |-> "none", which |-> "none", given |-> <<0, 0>>,
            target |-> Range(0, 0, T_UNKN), err |-> "none",
            omit_before |-> <<>>, include_before |-> <<>>,
            matched |-> <<>>, first |-> 0,
            container |-> Range(0, 0, T_UNKN), point |-> 0, holds |-> FALSE,
            pairs |-> <<>>, limit |-> 0, inspected |-> {}]

\* AddressSpaceAxes.__init__
InitAxes ==
    /\ omit_filters = <<>>
    /\ include_filters = <<>>
    /\ acall = NoACall
    /\ naxes = 0

\* the type of the ranges requested for a filter list
ListKind(which) == IF which = "omit" THEN T_OMIT ELSE T_KEEP

FilterList(which) == IF which = "omit" THEN omit_filters ELSE include_filters

OtherList(which) == IF which = "omit" THEN include_filters ELSE omit_filters

\* self._filter(target_list, other_list, Range(a, b, type)) with the omit
\* list or the include list as the target
Filter(which, a, b) ==
    LET target_range == Range(a, b, ListKind(which))
        res == filter(FilterList(which), OtherList(which), target_range)
    IN
    /\ naxes < MaxAxesCalls
    /\ omit_filters' = IF which = "omit" THEN res.list ELSE omit_filters
    /\ include_filters' = IF which = "include" THEN res.list
                          ELSE include_filters
    /\ acall' = [NoACall EXCEPT !.op = "filter", !.which = which,
                                !.given = <<a, b>>, !.target = target_range,
                                !.err = res.err,
                                !.omit_before = omit_filters,
                                !.include_before = include_filters,
                                !.matched = match_overlap_range(
                                                FilterList(which), target_range)]
    /\ naxes' = naxes + 1
    /\ UNCHANGED <<bvars, tvars, pvars, nvars>>

\* list.match_overlap_range(Range(a, b)) on one of the filter lists
MatchOverlapRange(which, a, b) ==
    LET target == Range(a, b, T_UNKN) IN
    /\ acall' = [NoACall EXCEPT !.op = "match_overlap_range", !.which = which,
                                !.given = <<a, b>>, !.target = target,
                                !.omit_before = omit_filters,
                                !.include_before = include_filters,
                                !.matched = match_overlap_range(
                                                FilterList(which), target)]
    /\ UNCHANGED <<omit_filters, include_filters, naxes>>
    /\ UNCHANGED <<bvars, tvars, pvars, nvars>>

\* list.first_overlap_range(Range(a, b)) on one of the filter lists
FirstOverlapRange(which, a, b) ==
    LET target == Range(a, b, T_UNKN) IN
    /\ acall' = [NoACall EXCEPT !.op = "first_overlap_range", !.which = which,
                                !.given = <<a, b>>, !.target = target,
                                !.omit_before = omit_filters,
                                !.include_before = include_filters,
                                !.first = first_overlap_range(
                                              FilterList(which), target)]
    /\ UNCHANGED <<omit_filters, include_filters, naxes>>
    /\ UNCHANGED <<bvars, tvars, pvars, nvars>>

\* Range(a, b) in Range(c, d)
ContainsRangeTest(a, b, c, d) ==
    LET target == Range(a, b, T_UNKN)
        r == Range(c, d, T_UNKN)
    IN
    /\ acall' = [NoACall EXCEPT !.op = "contains_range", !.target = target,
                                !.container = r,
                                !.holds = ContainsRange(r, target)]
    /\ UNCHANGED <<omit_filters, include_filters, naxes>>
    /\ UNCHANGED <<bvars, tvars, pvars, nvars>>

\* p in Range(c, d)
ContainsPointTest(p, c, d) ==
    LET r == Range(c, d, T_UNKN) IN
    /\ acall' = [NoACall EXCEPT !.op = "contains_point", !.point = p,
                                !.container = r,
                                !.holds = ContainsPoint(r, p)]
    /\ UNCHANGED <<omit_filters, include_filters, naxes>>
    /\ UNCHANGED <<bvars, tvars, pvars, nvars>>

\* ax.set_omit_ranges(pairs): the _filter loop, _map_omit on [0, inf) and
\* update_range on the transform of the x axis; an exception of _filter ends
\* the call with the ranges filtered so far left in the list
SetOmitRanges(pairs) ==
    LET res == FilterAll(omit_filters, include_filters, pairs, 1)
        all_ranges == map_omit(res.list, include_filters, DEFAULT_INCLUDE,
                               Range(0, Inf, T_UNKN))
    IN
    /\ naxes < MaxAxesCalls
    /\ omit_filters' = res.list
    /\ IF res.err = "none"
       THEN /\ objs' = [objs EXCEPT ![1] = update_range(objs[1], all_ranges)]
            /\ tcall' = [NoTCall EXCEPT !.op = "update_range", !.obj = 1,
                                        !.prev = objs[1].omit_scale]
       ELSE /\ objs' = objs
            /\ tcall' = NoTCall
    /\ acall' = [NoACall EXCEPT !.op = "set_omit_ranges", !.which = "omit",
                                !.err = res.err,
                                !.omit_before = omit_filters,
                                !.include_before = include_filters,
                                !.pairs = pairs, !.limit = size_limit,
                                !.inspected = submitted]
    /\ naxes' = naxes + 1
    /\ UNCHANGED <<include_filters, nupdates, parent>>
    /\ UNCHANGED <<bvars, pvars, nvars>>

\* builder.size_limit = limit, before anything is inspected
SetSizeLimit(limit) ==
    /\ ncalls = 0
    /\ size_limit' = limit
    /\ UNCHANGED <<ranges, split_size, submitted, bcall, ncalls>>
    /\ UNCHANGED <<tvars, avars, pvars, nvars>>

----------------------------------------------------------------------------
(* Provenance: CheriCap                                                      *)
(*                                                                           *)
(* MAX_ADDR = 0xffffffffffffffff does not fit the integers of the model.  A  *)
(* 64-bit quantity is a pair <<q, r>> that stands for q * MAX_ADDR + r, with *)
(* r small against MAX_ADDR: <<0, 5>> is 5, <<1, 0>> is 2^64 - 1, <<1, -1>>  *)
(* is 2^64 - 2 and <<1, 1>> is 2^64.                                         *)

WAdd(m, n) == <<m[1] + n[1], m[2] + n[2]>>

WLess(m, n) == m[1] < n[1] \/ (m[1] = n[1] /\ m[2] < n[2])

\* n % self.MAX_ADDR for n >= 0
ModMaxAddr(n) == IF n[2] >= 0 THEN <<0, n[2]>> ELSE <<1, n[2]>>

\* CheriCapPerm
GLOBAL == 1
EXEC == 2
LOAD == 4
STORE == 8
CAP_LOAD == 16
CAP_STORE == 32
CAP_STORE_LOCAL == 64
SEAL == 128
SYSTEM_REGISTERS == 1280

CheriCapPerm == {GLOBAL, EXEC, LOAD, STORE, CAP_LOAD, CAP_STORE,
                 CAP_STORE_LOCAL, SEAL, SYSTEM_REGISTERS}

\* a & b on integers >= 0
RECURSIVE BitAnd(_, _)
BitAnd(a, b) ==
    IF a = 0 \/ b = 0 THEN 0
    ELSE (a % 2) * (b % 2) + 2 * BitAnd(a \div 2, b \div 2)

\* CheriCap(): no pycheritrace capability given, base, length and
\* permissions are None
NoCap == [given |-> FALSE, base |-> <<0, 0>>, length |-> <<0, 0>>,
          permissions |-> 0]

\* CheriCap(pct_cap)
CheriCap(pct_cap) ==
    [given |-> TRUE, base |-> pct_cap.base, length |-> pct_cap.length,
     permissions |-> pct_cap.permissions]

\* results of the calls on a capability: a value, None or an exception
CapValue(v) == [ok |-> TRUE, none |-> FALSE, val |-> v, flag |-> FALSE,
                err |-> "none"]
CapNone == [ok |-> TRUE, none |-> TRUE, val |-> <<0, 0>>, flag |-> FALSE,
            err |-> "none"]
CapFlag(f) == [ok |-> TRUE, none |-> FALSE, val |-> <<0, 0>>, flag |-> f,
               err |-> "none"]
CapRaise(e) == [ok |-> FALSE, none |-> FALSE, val |-> <<0, 0>>,
                flag |-> FALSE, err |-> e]

\* the bound property
bound(c) ==
    IF c.given THEN CapValue(ModMaxAddr(WAdd(c.base, c.length)))
    ELSE CapNone

\* has_perm: None & perm is a TypeError
has_perm(c, perm) ==
    IF ~c.given THEN CapRaise("TypeError")
    ELSE IF BitAnd(c.permissions, perm) # 0 THEN CapFlag(TRUE)
    ELSE CapFlag(FALSE)

----------------------------------------------------------------------------
(* Provenance: NodeData *)

\* NodeData.DerefType
DEREF_LOAD == 1
DEREF_STORE == 2
DEREF_CALL == 3

\* list.append on a column of the table
AppendIfNew(column, value) ==
    IF \E i \in DOMAIN column : column[i] = value THEN column
    ELSE Append(column, value)
AppendColumn(column, value) == Append(column, value)

\* add_deref
add_deref(table, time, addr, is_cap, type_) ==
    [time |-> AppendColumn(table.time, time),
     addr |-> AppendColumn(table.addr, addr),
     is_cap |-> AppendColumn(table.is_cap, is_cap),
     type |-> AppendColumn(table.type, type_)]

\* add_load = partialmethod(add_deref, type_=DerefType.DEREF_LOAD)
add_load(table, time, addr, is_cap) ==
    add_deref(table, time, addr, is_cap, DEREF_LOAD)

\* add_store = partialmethod(add_deref, type_=DerefType.DEREF_STORE)
add_store(table, time, addr, is_cap) ==
    add_deref(table, time, addr, is_cap, DEREF_STORE)

\* add_call = partialmethod(add_deref, type_=DerefType.DEREF_CALL)
add_call(table, time, addr, is_cap) ==
    add_deref(table, time, addr, is_cap, DEREF_CALL)

----------------------------------------------------------------------------
(* A capability and a node as state machines *)

\* 64-bit values within NearEdge of 0 and of MAX_ADDR
EdgeValues == {<<0, d>> : d \in 0..NearEdge} \cup {<<1, -d>> : d \in 0..NearEdge}

\* permission bitmaps of the traced capabilities
PermValues == {0, GLOBAL, LOAD + CAP_LOAD, 256, 1024,
               SYSTEM_REGISTERS + SEAL, 2047}

\* the capability registers of the trace
PctCaps == [base : EdgeValues, length : EdgeValues, permissions : PermValues]

NoCCall == [op |-> "none", perm |-> 0, res |-> CapNone]

\* times, addresses and flags of the dereferences
DerefTimes == {10, 20}
DerefAddrs == {16}

\* NodeData.__init__
InitProvenance ==
    /\ cap = NoCap
    /\ ccall = NoCCall
    /\ deref = [time |-> <<>>, addr |-> <<>>, is_cap |-> <<>>, type |-> <<>>]
    /\ dcalls = <<>>

\* data.cap = CheriCap(pct_cap)
NewCap(pct_cap) ==
    /\ cap' = CheriCap(pct_cap)
    /\ ccall' = [NoCCall EXCEPT !.op = "init"]
    /\ UNCHANGED <<deref, dcalls>>
    /\ UNCHANGED <<bvars, tvars, avars, nvars>>

\* data.cap = CheriCap()
NewEmptyCap ==
    /\ cap' = NoCap
    /\ ccall' = [NoCCall EXCEPT !.op = "init"]
    /\ UNCHANGED <<deref, dcalls>>
    /\ UNCHANGED <<bvars, tvars, avars, nvars>>

\* cap.bound
Bound ==
    /\ ccall' = [NoCCall EXCEPT !.op = "bound", !.res = bound(cap)]
    /\ UNCHANGED <<cap, deref, dcalls>>
    /\ UNCHANGED <<bvars, tvars, avars, nvars>>

\* cap.has_perm(perm)
HasPerm(perm) ==
    /\ ccall' = [NoCCall EXCEPT !.op = "has_perm", !.perm = perm,
                                !.res = has_perm(cap, perm)]
    /\ UNCHANGED <<cap, deref, dcalls>>
    /\ UNCHANGED <<bvars, tvars, avars, nvars>>

\* data.add_deref(time, addr, is_cap, type_)
AddDeref(time, addr, is_cap, type_) ==
    /\ Len(dcalls) < MaxDerefs
    /\ deref' = add_deref(deref, time, addr, is_cap, type_)
    /\ dcalls' = Append(dcalls, [op |-> "add_deref", time |-> time,
                                 addr |-> addr, is_cap |-> is_cap,
                                 type |-> type_])
    /\ UNCHANGED <<cap, ccall>>
    /\ UNCHANGED <<bvars, tvars, avars, nvars>>

\* data.add_load(time, addr, is_cap)
AddLoad(time, addr, is_cap) ==
    /\ Len(dcalls) < MaxDerefs
    /\ deref' = add_load(deref, time, addr, is_cap)
    /\ dcalls' = Append(dcalls, [op |-> "add_load", time |-> time,
                                 addr |-> addr, is_cap |-> is_cap,
                                 type |-> 0])
    /\ UNCHANGED <<cap, ccall>>
    /\ UNCHANGED <<bvars, tvars, avars, nvars>>

\* data.add_store(time, addr, is_cap)
AddStore(time, addr, is_cap) ==
    /\ Len(dcalls) < MaxDerefs
    /\ deref' = add_store(deref, time, addr, is_cap)
    /\ dcalls' = Append(dcalls, [op |-> "add_store", time |-> time,
                                 addr |-> addr, is_cap |-> is_cap,
                                 type |-> 0])
    /\ UNCHANGED <<cap, ccall>>
    /\ UNCHANGED <<bvars, tvars, avars, nvars>>

\* data.add_call(time, addr, is_cap)
AddCall(time, addr, is_cap) ==
    /\ Len(dcalls) < MaxDerefs
    /\ deref' = add_call(deref, time, addr, is_cap)
    /\ dcalls' = Append(dcalls, [op |-> "add_call", time |-> time,
                                 addr |-> addr, is_cap |-> is_cap,
                                 type |-> 0])
    /\ UNCHANGED <<cap, ccall>>
    /\ UNCHANGED <<bvars, tvars, avars, nvars>>

----------------------------------------------------------------------------
(* Provenance: NodeData made from an operand of a traced instruction *)

\* CheriNodeOrigin
UNKNOWN == -1
ROOT == 0
SETBOUNDS == 1
FROMPTR == 2
ANDPERM == 3
PTR_SETBOUNDS == 4
SYS_MMAP == 5
SYS_MUNMAP == 6

\* an attribute that is None, or holds a value
None == [none |-> TRUE, val |-> 0]
Some(v) == [none |-> FALSE, val |-> v]

\* CheriCap.__init__: the fields of the register and the two times
NewCheriCap(pct_cap) ==
    [none |-> FALSE, reg |-> CheriCap(pct_cap), t_alloc |-> -1, t_free |-> -1]

\* node.cap = None
NoCheriCap == [none |-> TRUE, reg |-> NoCap, t_alloc |-> -1, t_free |-> -1]

\* NodeData.__init__
NewNodeData ==
    [address |-> <<>>,
     deref |-> [time |-> <<>>, addr |-> <<>>, is_cap |-> <<>>, type |-> <<>>],
     cap |-> NoCheriCap,
     origin |-> UNKNOWN,
     pc |-> None,
     is_kernel |-> FALSE]

\* the names the module binds at its top level: its imports and its classes;
\* the names graph_tool.all exports are those of the graph library
GraphToolNames == {"Graph", "GraphView", "Vertex", "Edge", "PropertyMap"}

ModuleNames ==
    {"IntEnum", "cached_property", "partialmethod"} \cup GraphToolNames
    \cup {"CheriCapPerm", "CheriNodeOrigin", "CheriCap", "NodeData"}

\* the outcome of from_operand: the node returned or the exception raised
Returned(data) == [returned |-> TRUE, err |-> "none", data |-> data]
Raised(e) == [returned |-> FALSE, err |-> e, data |-> NewNodeData]

\* NodeData.from_operand: the error branch first looks up the name logger
from_operand(op) ==
    LET data == NewNodeData
    IN  IF ~op.is_register \/ ~op.is_capability
        THEN IF "logger" \notin ModuleNames THEN Raised("NameError")
             ELSE Raised("ValueError")
        ELSE Returned([data EXCEPT
                 !.cap = [NewCheriCap(op.value) EXCEPT !.t_alloc = op.cycles],
                 !.pc = Some(op.pc),
                 !.is_kernel = op.kernel])

\* the operands of the traced instructions
OperandCycles == {0, 7}
OperandPcs == {64}
OperandCaps ==
    [base : {<<0, 0>>, <<0, 1>>}, length : {<<0, 1>>, <<1, 0>>},
     permissions : {0, LOAD}]
Operands ==
    [is_register : BOOLEAN, is_capability : BOOLEAN, value : OperandCaps,
     cycles : OperandCycles, pc : OperandPcs, kernel : BOOLEAN]

NoFCall == [op |-> "none", returned |-> FALSE, err |-> "none"]

InitOperand ==
    /\ node = NewNodeData
    /\ fcall = NoFCall

\* data = NodeData.from_operand(op): the caller's node is bound only when
\* the call returns
FromOperand(op) ==
    LET res == from_operand(op)
    IN  /\ node' = IF res.returned THEN res.data ELSE node
        /\ fcall' = [op |-> "from_operand", operand |-> op,
                     returned |-> res.returned, err |-> res.err]
        /\ UNCHANGED <<bvars, tvars, avars, pvars, cvars, gvars, order>>

----------------------------------------------------------------------------
(* The consumers of the nodes: the builders of the address map plot and the *)
(* dataset of the size histogram.  The ranges of the model hold integers;   *)
(* a 64-bit value near MAX_ADDR is placed above every other address of the  *)
(* model and below Inf, which keeps the order of the values.                *)

MaxAddrInt == Inf - DefaultSizeLimit

AddrInt(w) == IF w[1] = 0 THEN w[2] ELSE MaxAddrInt + w[2]

\* node.cap.base and node.cap.bound as the consumers read them
NodeBase(nd) == nd.cap.reg.base
NodeBound(nd) == bound(nd.cap.reg).val

\* node.cap.bound < node.cap.base
Overflowed(nd) == WLess(NodeBound(nd), NodeBase(nd))

\* ColorCodePatchBuilder.y_unit
y_unit == Q(1, 1000000)

\* perms & (LOAD | STORE | EXEC), or the key "call"
PermKey(perms) == [call |-> FALSE, rwx |-> BitAnd(perms, LOAD + STORE + EXEC)]
CallKey == [call |-> TRUE, rwx |-> 0]

QMin(p, q) == IF QGreater(p, q) THEN q ELSE p
QMax(p, q) == IF QGreater(q, p) THEN q ELSE p

\* transforms.Bbox.union([a, b])
BboxUnion(a, b) ==
    [x0 |-> Min(a.x0, b.x0), y0 |-> QMin(a.y0, b.y0),
     x1 |-> Max(a.x1, b.x1), y1 |-> QMax(a.y1, b.y1)]

\* PatchBuilder.__init__ and ColorCodePatchBuilder.__init__ (address_map.py)
NewPatchBuilder ==
    [bbox |-> [x0 |-> 0, y0 |-> QInt(0), x1 |-> 0, y1 |-> QInt(0)],
     lines |-> <<>>]

\* _build_patch and _build_call_patch: the line goes to the list of its key
BuildPatch(pb, node_range, y, key) ==
    [pb EXCEPT !.lines = Append(@, [key |-> key, start |-> node_range.start,
                                    end |-> node_range.end, y |-> y])]

\* ColorCodePatchBuilder.inspect (address_map.py): the builder afterwards
PatchInspect(pb, nd) ==
    IF Overflowed(nd) THEN pb
    ELSE LET node_y == QMul(QInt(nd.cap.t_alloc), y_unit)
             b == AddrInt(NodeBase(nd))
             e == AddrInt(NodeBound(nd))
             node_box == [x0 |-> b, y0 |-> node_y, x1 |-> e, y1 |-> node_y]
             keep_range == Range(b, e, T_KEEP)
             key == IF nd.origin = SYS_MMAP THEN CallKey
                    ELSE PermKey(nd.cap.reg.permissions)
         IN  BuildPatch([pb EXCEPT !.bbox = BboxUnion(@, node_box)],
                        keep_range, node_y, key)

\* ColorCodePatchBuilder.__init__ (addr_map.py)
NewVertexPatchBuilder ==
    [bbox |-> <<Inf, Inf, 0, 0>>, lines |-> <<>>, node_map |-> <<>>,
     added |-> <<>>]

\* ASAxesPatchBuilder._add_range(start, end): the range is marked interesting
add_range(added, start, end) == Append(added, <<start, end>>)

\* ColorCodePatchBuilder.inspect (addr_map.py), past its assertion
VertexInspect(pb, nd) ==
    LET vertex_y == nd.cap.t_alloc
        b == AddrInt(NodeBase(nd))
        e == AddrInt(NodeBound(nd))
        key == IF nd.origin = SYS_MMAP THEN CallKey
               ELSE PermKey(nd.cap.reg.permissions)
    IN  [bbox |-> << Min(pb.bbox[1], b), Min(pb.bbox[2], vertex_y),
                     Max(pb.bbox[3], e), Max(pb.bbox[4], vertex_y) >>,
         lines |-> Append(pb.lines, [key |-> key, start |-> b, end |-> e,
                                     y |-> vertex_y]),
         node_map |-> Append(SelectSeq(pb.node_map,
                                 LAMBDA m : m.y # nd.cap.t_alloc),
                             [y |-> nd.cap.t_alloc, data |-> nd]),
         added |-> add_range(pb.added, b, e)]

\* the vm map of the traced process
VmMap == << [start |-> 0, end |-> 2 * DefaultSizeLimit],
            [start |-> 2 * DefaultSizeLimit, end |-> 4 * DefaultSizeLimit] >>

\* CapSizeCreationPlot.build_dataset: vm_ranges
vm_ranges == [i \in DOMAIN VmMap |-> Range(VmMap[i].start, VmMap[i].end, T_UNKN)]

\* a 64-bit length as the histogram holds it
LengthInt(nd) == AddrInt(nd.cap.reg.length)

\* CapSizeCreationPlot.build_dataset: the body of the loop for one node
HistogramNode(hist, nd) ==
    LET target == Range(AddrInt(NodeBase(nd)), AddrInt(NodeBound(nd)), T_UNKN)
    IN  [idx \in DOMAIN hist |->
            IF ContainsRange(vm_ranges[idx], target)
            THEN Append(hist[idx], LengthInt(nd))
            ELSE hist[idx]]

\* the nodes of the graph the consumers go through
PassCaps ==
    [base : {<<0, DefaultSizeLimit>>, <<1, -1>>},
     length : {<<0, DefaultSizeLimit>>, <<0, 3 * DefaultSizeLimit>>},
     permissions : {LOAD}]

PassNodes ==
    { [NewNodeData EXCEPT !.cap = [NewCheriCap(c) EXCEPT !.t_alloc = 1],
                          !.origin = o] :
        c \in PassCaps, o \in {UNKNOWN, SYS_MMAP} }

NoICall == [op |-> "none", overflowed |-> FALSE, err |-> "none",
            built |-> FALSE]

\* the state the consumers accumulate
Accumulated ==
    [ranges |-> ranges, patches |-> patches, vpatches |-> vpatches,
     histogram_input |-> histogram_input]

InitConsumers ==
    /\ patches = NewPatchBuilder
    /\ vpatches = NewVertexPatchBuilder
    /\ histogram_input = [i \in DOMAIN VmMap |-> <<>>]
    /\ icall = NoICall
    /\ pass = [state |-> "running", nodes |-> 0]

\* the record of a call of a consumer on a node
Inspected(op, nd, err, built) ==
    [op |-> op, node |-> nd, overflowed |-> Overflowed(nd), err |-> err,
     built |-> built, before |-> Accumulated]

\* the pass goes on to the next node, or ends with the exception
PassAfter(err) ==
    [state |-> IF err = "none" THEN "running" ELSE "aborted",
     nodes |-> pass.nodes + 1]

\* AddressMapOmitBuilder.inspect(node)
OmitBuilderInspect(nd) ==
    LET keep_range == Range(AddrInt(NodeBase(nd)), AddrInt(NodeBound(nd)),
                            T_KEEP)
        calls == InspectRangeCalls(keep_range, size_limit, split_size)
    IN
    /\ pass.state = "running" /\ pass.nodes < MaxNodes
    /\ IF Overflowed(nd)
       THEN /\ UNCHANGED <<ranges, submitted>>
            /\ bcall' = [op |-> "inspect", arg |-> keep_range, calls |-> <<>>,
                         before |-> ranges]
       ELSE /\ ranges' = ApplyCalls(ranges, calls, 1, size_limit)
            /\ submitted' = submitted \cup SeqRange(calls)
            /\ bcall' = [op |-> "inspect", arg |-> keep_range,
                         calls |-> calls, before |-> ranges]
    /\ ncalls' = ncalls + 1
    /\ icall' = Inspected("omit_builder", nd, "none", ~Overflowed(nd))
    /\ pass' = PassAfter("none")
    /\ UNCHANGED <<size_limit, split_size, patches, vpatches, histogram_input>>
    /\ UNCHANGED <<tvars, avars, pvars, ovars, gvars, order>>

\* ColorCodePatchBuilder.inspect(node) of address_map.py
PatchBuilderInspect(nd) ==
    /\ pass.state = "running" /\ pass.nodes < MaxNodes
    /\ patches' = PatchInspect(patches, nd)
    /\ icall' = Inspected("patch_builder", nd, "none", ~Overflowed(nd))
    /\ pass' = PassAfter("none")
    /\ UNCHANGED <<vpatches, histogram_input>>
    /\ UNCHANGED <<bvars, tvars, avars, pvars, ovars, gvars, order>>

\* ColorCodePatchBuilder.inspect(vertex) of addr_map.py: the assertion fails
\* on an overflowed node and the exception leaves the loop over the vertices
VertexPatchBuilderInspect(nd) ==
    LET err == IF Overflowed(nd) THEN "AssertionError" ELSE "none"
    IN
    /\ pass.state = "running" /\ pass.nodes < MaxNodes
    /\ vpatches' = IF err = "none" THEN VertexInspect(vpatches, nd)
                   ELSE vpatches
    /\ icall' = Inspected("vertex_patch_builder", nd, err, FALSE)
    /\ pass' = PassAfter(err)
    /\ UNCHANGED <<patches, histogram_input>>
    /\ UNCHANGED <<bvars, tvars, avars, pvars, ovars, gvars, order>>

\* CapSizeCreationPlot.build_dataset: one turn of the loop over the vertices
BuildDatasetNode(nd) ==
    /\ pass.state = "running" /\ pass.nodes < MaxNodes
    /\ histogram_input' = HistogramNode(histogram_input, nd)
    /\ icall' = Inspected("build_dataset", nd, "none", TRUE)
    /\ pass' = PassAfter("none")
    /\ UNCHANGED <<patches, vpatches>>
    /\ UNCHANGED <<bvars, tvars, avars, pvars, ovars, gvars, order>>

----------------------------------------------------------------------------
(* The provenance graph: vertices holding a NodeData, derivation edges.    *)
(* The pass over the trace that builds it is not part of these sources; it  *)
(* is taken from the description of the construction policy: a new vertex   *)
(* for each instruction that produces a capability, an edge from the vertex *)
(* of the source register, and t_free set when the capability is freed.     *)

\* the operands of the instructions that produce a capability
GraphOperands ==
    { op \in Operands : /\ op.is_register /\ op.is_capability
                        /\ op.value.permissions = LOAD /\ op.kernel = FALSE
                        /\ op.cycles = 7 /\ op.value.base = <<0, 0>> }

\* the cycles at which a capability is freed
FreeCycles == {9}

\* the vertex payload of an instruction of the given kind
VertexData(op, origin) == [from_operand(op).data EXCEPT !.origin = origin]

\* a vertex is added at the end of the arena
add_vertex(vs, data) == Append(vs, data)

\* a derivation edge u -> v is added
add_edge(es, u, v) == es \cup {<<u, v>>}

\* freeing the capability of vertex v at the given cycle
FreeAndRemove(vs, v, cycle) ==
    [i \in 1..(Len(vs) - 1) |-> IF i < v THEN vs[i] ELSE vs[i + 1]]
free_vertex(vs, v, cycle) == [vs EXCEPT ![v].cap.t_free = cycle]

NoGCall == [op |-> "none", vertex |-> 0, source |-> 0, cycle |-> -1]

InitGraph ==
    /\ vertices = <<>>
    /\ edges = {}
    /\ gcall = NoGCall

\* a capability with no known parent: a ROOT vertex with no incoming edge
AddRoot(op) ==
    /\ Len(vertices) < MaxVertices
    /\ vertices' = add_vertex(vertices, VertexData(op, ROOT))
    /\ edges' = edges
    /\ gcall' = [op |-> "root", vertex |-> Len(vertices) + 1, source |-> 0,
                 cycle |-> op.cycles]
    /\ UNCHANGED <<bvars, tvars, avars, pvars, ovars, cvars, order>>

\* an instruction or system call derives a capability from that of vertex u
Derive(u, op, origin) ==
    /\ Len(vertices) < MaxVertices
    /\ u \in DOMAIN vertices
    /\ vertices' = add_vertex(vertices, VertexData(op, origin))
    /\ edges' = add_edge(edges, u, Len(vertices) + 1)
    /\ gcall' = [op |-> "derive", vertex |-> Len(vertices) + 1, source |-> u,
                 cycle |-> op.cycles]
    /\ UNCHANGED <<bvars, tvars, avars, pvars, ovars, cvars, order>>

\* the capability of vertex v, live until now, is freed
Free(v, cycle) ==
    /\ v \in DOMAIN vertices
    /\ vertices[v].cap.t_free = -1
    /\ vertices' = free_vertex(vertices, v, cycle)
    /\ edges' = edges
    /\ gcall' = [op |-> "free", vertex |-> v, source |-> 0, cycle |-> cycle]
    /\ UNCHANGED <<bvars, tvars, avars, pvars, ovars, cvars, order>>

----------------------------------------------------------------------------
(* Specifications *)

Init ==
    /\ InitBuilder /\ InitTransform /\ InitAxes /\ InitProvenance
    /\ InitOperand /\ InitConsumers /\ InitGraph
    /\ order = <<>>

\* the builder alone
SpecBuilder == Init /\ [][NextBuilder]_vars

\* the builder called on page boundaries only, given in either order
PageAddrs == {k * DefaultSizeLimit : k \in 0..3}

NextPages ==
    \/ \E a \in PageAddrs, b \in PageAddrs : UpdateRegions(a, b)
    \/ \E a \in PageAddrs, b \in PageAddrs : InspectRange(a, b)

SpecPages == Init /\ [][NextPages]_vars

\* one transform, updated and asked in both directions
NextTransform ==
    \/ \E range_list \in Partitions : UpdateRange(1, range_list)
    \/ \E a \in QueryAddrs : GetX(1, a)
    \/ GetXInv(1)

SpecTransform == Init /\ [][NextTransform]_vars

\* a transform and the handles inverted() returns
NextHandles ==
    \/ /\ nupdates < MaxUpdates
       /\ \E o \in DOMAIN objs : \E range_list \in Partitions : UpdateRange(o, range_list)
    \/ \E o \in DOMAIN objs : Inverted(o)
    \/ \E o \in DOMAIN objs : \E a \in QueryAddrs : TransformX(o, a)

SpecHandles == Init /\ [][NextHandles]_vars

\* a transform that is updated, the handles inverted() returns for it, and
\* addresses taken through the transform and back through a handle
NextStale ==
    \/ /\ nupdates < MaxUpdates
       /\ \E range_list \in Partitions : UpdateRange(1, range_list)
    \/ Inverted(1)
    \/ \E h \in DOMAIN objs : \E a \in QueryAddrs : RoundTrip(h, a)

SpecStale == Init /\ [][NextStale]_vars

\* lists cut like Partitions whose members may also carry the type a Range
\* has when none is given
TypedListsCutAt(S) ==
    LET bounds == <<0>> \o SortedSeq(S) \o <<Inf>>
        n == Len(bounds) - 1
    IN  { [i \in 1..n |-> Range(bounds[i], bounds[i + 1], ty[i])] :
            ty \in [1..n -> {T_KEEP, T_OMIT, T_UNKN}] }

TypedLists == UNION { TypedListsCutAt(S) : S \in SUBSET (1..MaxScanCut) }

\* one transform handed lists of ranges of any type
NextScan ==
    \/ \E range_list \in TypedLists : UpdateRange(1, range_list)
    \/ \E a \in 0..(MaxScanCut + 1) : GetX(1, a)
    \/ GetXInv(1)

SpecScan == Init /\ [][NextScan]_vars

\* the filter lists of one axes object and the tests on ranges
NextAxes ==
    \/ \E which \in {"omit", "include"} : \E a \in FilterAddrs, b \in FilterAddrs :
            a < b /\ Filter(which, a, b)
    \/ \E which \in {"omit", "include"} : \E a \in FilterAddrs, b \in FilterAddrs :
            a < b /\ MatchOverlapRange(which, a, b)
    \/ \E which \in {"omit", "include"} : \E a \in FilterAddrs, b \in FilterAddrs :
            a < b /\ FirstOverlapRange(which, a, b)

SpecAxes == Init /\ [][NextAxes]_vars

\* the containment tests on ranges
NextRange ==
    \/ \E a \in FilterAddrs, b \in FilterAddrs, c \in FilterAddrs, d \in FilterAddrs :
            ContainsRangeTest(a, b, c, d)
    \/ \E p \in FilterAddrs, c \in FilterAddrs, d \in FilterAddrs :
            ContainsPointTest(p, c, d)

SpecRange == Init /\ [][NextRange]_vars

\* addresses of the plotted capabilities and of the queries on the axis
PlotAddrs == {k * DefaultSizeLimit : k \in {1, 2, 5, 6}}

PlotQueries == PlotAddrs \cup {2 * DefaultSizeLimit - 1}

\* plot(): the builder inspects the nodes, its omit ranges are installed on
\* new axes, and addresses are mapped through the transform of the x axis
NextPlot ==
    \/ \E limit \in {0, DefaultSizeLimit} : SetSizeLimit(limit)
    \/ /\ naxes = 0
       /\ \E a \in PlotAddrs, b \in PlotAddrs : a < b /\ UpdateRegions(a, b)
    \/ /\ naxes = 0
       /\ SetOmitRanges(get_omit_ranges(ranges))
    \/ \E a \in PlotQueries : GetX(1, a)

SpecPlot == Init /\ [][NextPlot]_vars

\* the lists of one or two ranges, none overlapping another, that a caller
\* hands to set_omit_ranges
OmitPairs == {p \in FilterAddrs \X FilterAddrs : p[1] < p[2]}

OmitLists ==
    {<<p>> : p \in OmitPairs}
    \cup { l \in [1..2 -> OmitPairs] :
             ~Overlaps(Range(l[1][1], l[1][2], T_OMIT),
                       Range(l[2][1], l[2][2], T_OMIT)) }

\* set_omit_ranges called again and again on the same axes
NextFilters == \E pairs \in OmitLists : SetOmitRanges(pairs)

SpecFilters == Init /\ [][NextFilters]_vars

\* one capability: made from a register of the trace or empty, then asked
NextCap ==
    \/ \E pct_cap \in PctCaps : NewCap(pct_cap)
    \/ NewEmptyCap
    \/ Bound
    \/ \E perm \in CheriCapPerm : HasPerm(perm)

SpecCap == Init /\ [][NextCap]_vars

\* the dereference table of one node
NextNode ==
    \/ \E time \in DerefTimes, addr \in DerefAddrs, is_cap \in BOOLEAN :
         \E type_ \in {DEREF_LOAD, DEREF_STORE, DEREF_CALL} :
            AddDeref(time, addr, is_cap, type_)
    \/ \E time \in DerefTimes, addr \in DerefAddrs, is_cap \in BOOLEAN :
            AddLoad(time, addr, is_cap)
    \/ \E time \in DerefTimes, addr \in DerefAddrs, is_cap \in BOOLEAN :
            AddStore(time, addr, is_cap)
    \/ \E time \in DerefTimes, addr \in DerefAddrs, is_cap \in BOOLEAN :
            AddCall(time, addr, is_cap)

SpecNode == Init /\ [][NextNode]_vars

\* nodes made from the operands of the trace
NextOperand == \E op \in Operands : FromOperand(op)

SpecOperand == Init /\ [][NextOperand]_vars

\* the consumers going through the nodes of the graph
NextConsumers ==
    \/ \E nd \in PassNodes : OmitBuilderInspect(nd)
    \/ \E nd \in PassNodes : PatchBuilderInspect(nd)
    \/ \E nd \in PassNodes : VertexPatchBuilderInspect(nd)
    \/ \E nd \in PassNodes : BuildDatasetNode(nd)

SpecConsumers == Init /\ [][NextConsumers]_vars

\* the construction of the provenance graph
NextGraph ==
    \/ \E op \in GraphOperands : AddRoot(op)
    \/ \E u \in 1..MaxVertices, op \in GraphOperands :
         \E origin \in {SETBOUNDS, SYS_MMAP} : Derive(u, op, origin)
    \/ \E v \in 1..MaxVertices, cycle \in FreeCycles : Free(v, cycle)

SpecGraph == Init /\ [][NextGraph]_vars

\* addresses off the page boundaries, which leave remainders below size_limit
OrderAddrs == {0, 1000, 5096, 6000, 3 * DefaultSizeLimit}

\* region updates followed in their order
NextOrder ==
    \E a \in OrderAddrs, b \in OrderAddrs : a < b /\ UpdateRegionsInOrder(a, b)

SpecOrder == Init /\ [][NextOrder]_vars

----------------------------------------------------------------------------
(* Claims about the builder *)

\* the (start, end) pairs of the members of a list
Pairs(rs) == {<<rs[i].start, rs[i].end>> : i \in DOMAIN rs}

Pair(r) == <<r.start, r.end>>

\* nr lies fully inside r
Inside(nr, r) == r.start <= nr.start /\ nr.end <= r.end

\* an interval is covered by one member of the list
Covered(rs, m) == \E i \in DOMAIN rs : Inside(m, rs[i])

\* C1: when _update_regions(nr) is applied and nr lies fully inside a member
\* r, r is replaced by the left remainder [r.start, nr.start) and the right
\* remainder [nr.end, r.end), each in the set afterwards iff its size is
\* >= size_limit (r itself is no longer a member unless a remainder is the
\* whole of r); from the single range [0, inf) with size_limit 4096,
\* inspecting [1000, 2000) leaves exactly [2000, inf).
C1_SplitKeepsLargeRemainders ==
    bcall.op = "update_regions" =>
        /\ \A i \in DOMAIN bcall.before :
            LET r == bcall.before[i]
                nr == bcall.arg
                r_left == Range(r.start, nr.start, T_OMIT)
                r_right == Range(nr.end, r.end, T_OMIT)
            IN  Inside(nr, r) =>
                  /\ (Pair(r_left) \in Pairs(ranges)) <=> (Size(r_left) >= size_limit)
                  /\ (Pair(r_right) \in Pairs(ranges)) <=> (Size(r_right) >= size_limit)
                  /\ (Pair(r) \in Pairs(ranges)) => (Pair(r) \in {Pair(r_left), Pair(r_right)})
        /\ ( /\ bcall.before = << Range(0, Inf, T_OMIT) >>
             /\ Pair(bcall.arg) = <<1000, 2000>>
             /\ size_limit = 4096 )
           => ranges = << Range(2000, Inf, T_OMIT) >>

\* C1 witness: [1000, 2000) was inspected from the initial list; the left
\* remainder [0, 1000) was dropped and the right one kept.
C1_Witness ==
    /\ bcall.op = "update_regions"
    /\ bcall.before = << Range(0, Inf, T_OMIT) >>
    /\ Pair(bcall.arg) = <<1000, 2000>>
    /\ Pairs(ranges) = {<<2000, Inf>>}

\* C2: after any sequence of _update_regions calls no member of the OMIT set
\* overlaps a range submitted in that sequence, and no submitted range is
\* itself a member.
C2_NoMemberOverlapsSubmitted ==
    \A i \in DOMAIN ranges : \A s \in submitted :
        /\ ~Overlaps(ranges[i], s)
        /\ Pair(ranges[i]) # Pair(s)

\* C2 witness: a member that lay fully inside the submitted range (and
\* overlapped it) was removed by the last call.
C2_Witness ==
    /\ bcall.op = "update_regions"
    /\ \E i \in DOMAIN bcall.before :
         /\ Overlaps(bcall.before[i], bcall.arg)
         /\ Inside(bcall.before[i], bcall.arg)
         /\ Pair(bcall.before[i]) # Pair(bcall.arg)
         /\ Pair(bcall.before[i]) \notin Pairs(ranges)

\* C3: from the initial list and after any sequence of completed region
\* updates, no two members of the OMIT set overlap each other.
C3_MembersDisjoint ==
    \A i \in DOMAIN ranges : \A j \in DOMAIN ranges :
        i # j => ~Overlaps(ranges[i], ranges[j])

\* C3 witness: three members after at least two updates.
C3_Witness == ncalls >= 2 /\ Len(ranges) >= 3

\* nr overlaps only the start of r / only the end of r
CrossesStart(nr, r) == Overlaps(r, nr) /\ nr.start < r.start /\ nr.end < r.end
CrossesEnd(nr, r) == Overlaps(r, nr) /\ nr.start > r.start /\ nr.end > r.end

\* the members expected at the place of member r after the update
C4_InPlace(r, nr, limit) ==
    IF ~Overlaps(r, nr) THEN <<r>>
    ELSE IF CrossesStart(nr, r)
    THEN (IF Size([r EXCEPT !.start = nr.end]) < limit THEN <<>>
          ELSE << [r EXCEPT !.start = nr.end] >>)
    ELSE IF CrossesEnd(nr, r)
    THEN (IF Size([r EXCEPT !.end = nr.start]) < limit THEN <<>>
          ELSE << [r EXCEPT !.end = nr.start] >>)
    ELSE <<>>

RECURSIVE C4_Expected(_, _, _, _)
C4_Expected(rs, k, nr, limit) ==
    IF k > Len(rs) THEN <<>>
    ELSE C4_InPlace(rs[k], nr, limit) \o C4_Expected(rs, k + 1, nr, limit)

\* C4: when nr overlaps only one end of a member r, r is shrunk in place to
\* its part outside nr (r.start becomes nr.end, or r.end becomes nr.start) and
\* is removed iff its resulting size is < size_limit; the members that do not
\* overlap nr keep their value and their place (the remainders of a split are
\* appended after them).
C4_ResizeInPlace ==
    bcall.op = "update_regions" =>
        LET exp == C4_Expected(bcall.before, 1, bcall.arg, size_limit)
        IN  /\ Len(ranges) >= Len(exp)
            /\ SubSeq(ranges, 1, Len(exp)) = exp
            /\ \A i \in DOMAIN bcall.before :
                 LET r == bcall.before[i] IN
                 /\ CrossesStart(bcall.arg, r) =>
                      ((<<bcall.arg.end, r.end>> \in Pairs(ranges))
                          <=> (Size(Range(bcall.arg.end, r.end, T_OMIT)) >= size_limit))
                 /\ CrossesEnd(bcall.arg, r) =>
                      ((<<r.start, bcall.arg.start>> \in Pairs(ranges))
                          <=> (Size(Range(r.start, bcall.arg.start, T_OMIT)) >= size_limit))

\* C4 witness: one call shrank a member at its end and dropped it (too small)
\* and shrank another at its start and kept it.
C4_Witness ==
    /\ bcall.op = "update_regions"
    /\ \E i \in DOMAIN bcall.before :
         /\ CrossesEnd(bcall.arg, bcall.before[i])
         /\ <<bcall.before[i].start, bcall.arg.start>> \notin Pairs(ranges)
    /\ \E i \in DOMAIN bcall.before :
         /\ CrossesStart(bcall.arg, bcall.before[i])
         /\ <<bcall.arg.end, bcall.before[i].end>> \in Pairs(ranges)

\* the two edge slices and the middle of a range, as inspect_range cuts it
FirstSlice(r, limit) == Range(r.start, r.start + limit, T_KEEP)
LastSlice(r, limit) == Range(r.end - limit, r.end, T_KEEP)
Middle(r, limit) == Range(r.start + limit, r.end - limit, T_OMIT)

C5_Updates(r) ==
    IF Size(r) > 2 * size_limit
    THEN /\ bcall.calls = << FirstSlice(r, size_limit), LastSlice(r, size_limit) >>
         /\ \A i \in DOMAIN ranges :
              /\ ~Overlaps(ranges[i], FirstSlice(r, size_limit))
              /\ ~Overlaps(ranges[i], LastSlice(r, size_limit))
    ELSE Len(bcall.calls) = 1 /\ Pair(bcall.calls[1]) = Pair(r)

\* C5 as stated: with r.size > 2 x size_limit two updates are submitted, for
\* the first and the last size_limit-sized slice, and the middle is still
\* covered by an OMIT member whenever it was covered before the call; with
\* r.size <= 2 x size_limit one update for the whole of r is submitted.
C5_Original ==
    bcall.op = "inspect_range" =>
        /\ C5_Updates(bcall.arg)
        /\ ( /\ Size(bcall.arg) > 2 * size_limit
             /\ Covered(bcall.before, Middle(bcall.arg, size_limit)) )
           => Covered(ranges, Middle(bcall.arg, size_limit))

\* C5, amended: as C5, but the middle is still covered whenever it was covered
\* before the call and its own size is >= size_limit, that is whenever
\* r.size >= 3 x size_limit; a smaller middle is dropped as a sliver.
C5_MiddleKeptWhenLarge ==
    bcall.op = "inspect_range" =>
        /\ C5_Updates(bcall.arg)
        /\ ( /\ Size(bcall.arg) >= 3 * size_limit
             /\ Covered(bcall.before, Middle(bcall.arg, size_limit)) )
           => Covered(ranges, Middle(bcall.arg, size_limit))
        /\ ( /\ Size(bcall.arg) > 2 * size_limit
             /\ Size(bcall.arg) < 3 * size_limit )
           => ~Covered(ranges, Middle(bcall.arg, size_limit))

\* C5 witness: a range of three times size_limit was inspected in two
\* updates and its middle is still covered.
C5_Witness ==
    /\ bcall.op = "inspect_range"
    /\ Size(bcall.arg) >= 3 * size_limit
    /\ Len(bcall.calls) = 2
    /\ Covered(bcall.before, Middle(bcall.arg, size_limit))
    /\ Covered(ranges, Middle(bcall.arg, size_limit))

----------------------------------------------------------------------------
(* Claims about the transform *)

\* the member of a partition that contains address a
InRange(r, a) == r.start <= a /\ a < r.end

\* total size of the finite members of one type, counted address by address
FiniteMeasure(rs, rtype) ==
    Cardinality({a \in 0..(MaxCut + 1) :
        \E i \in DOMAIN rs :
            rs[i].rtype = rtype /\ rs[i].end # Inf /\ InRange(rs[i], a)})

\* some member of the type has no end
HasInfinite(rs, rtype) ==
    \E i \in DOMAIN rs : rs[i].rtype = rtype /\ rs[i].end = Inf

\* C6 as stated: after update_range(P) with total OMIT size > 0, omit_scale
\* is 0.05 x (sum of the sizes of all KEEP members) / (sum of the sizes of all
\* OMIT members); with no OMIT size it keeps its previous value.
C6_Original ==
    tcall.op = "update_range" =>
        LET obj == objs[tcall.obj]
            rs == obj.target_ranges
            keep == FiniteMeasure(rs, T_KEEP)
            omit == FiniteMeasure(rs, T_OMIT)
        IN  IF omit > 0 \/ HasInfinite(rs, T_OMIT)
            THEN obj.omit_scale =
                   (IF HasInfinite(rs, T_OMIT)
                    THEN (IF HasInfinite(rs, T_KEEP) THEN QNaN ELSE QInt(0))
                    ELSE IF HasInfinite(rs, T_KEEP) THEN QInf
                    ELSE Q(keep, 20 * omit))
            ELSE obj.omit_scale = tcall.prev

\* C6, amended: the sums run over the members of finite size only.  After
\* update_range(P) with finite OMIT size > 0, omit_scale x (finite OMIT size)
\* = 0.05 x (finite KEEP size); with no finite OMIT size omit_scale keeps its
\* previous value.
C6_OmitScaleOverFiniteMembers ==
    tcall.op = "update_range" =>
        LET obj == objs[tcall.obj]
            keep == FiniteMeasure(obj.target_ranges, T_KEEP)
            omit == FiniteMeasure(obj.target_ranges, T_OMIT)
        IN  IF omit > 0
            THEN QMul(obj.omit_scale, QInt(omit)) = Q(keep, 20)
            ELSE obj.omit_scale = tcall.prev

\* C6 witness: a partition with finite KEEP and finite OMIT members was
\* installed over a different omit_scale.
C6_Witness ==
    /\ tcall.op = "update_range"
    /\ FiniteMeasure(objs[tcall.obj].target_ranges, T_KEEP) > 0
    /\ FiniteMeasure(objs[tcall.obj].target_ranges, T_OMIT) > 1
    /\ tcall.prev # objs[tcall.obj].omit_scale
    /\ tcall.prev # QInt(1)

C7_LocalScale(r, omit_scale) == IF r.rtype = T_KEEP THEN QInt(1) ELSE omit_scale

C7_Containing(rs, a) == CHOOSE i \in DOMAIN rs : InRange(rs[i], a)

\* displayed width of the members before position i
RECURSIVE C7_WidthBefore(_, _, _)
C7_WidthBefore(rs, omit_scale, i) ==
    IF i <= 1 THEN QInt(0)
    ELSE QAdd(C7_WidthBefore(rs, omit_scale, i - 1),
              QMul(QInt(rs[i - 1].end - rs[i - 1].start),
                   C7_LocalScale(rs[i - 1], omit_scale)))

\* C7: for a complete ascending partition and an address a >= 0, get_x(a) is
\* the displayed width of the members before the member r that contains a,
\* plus (a - r.start) x local_scale(r); an address that is the start of a
\* member maps to that member's precomputed offset.
C7_ForwardIsPrefixWidth ==
    (tcall.op = "get_x" /\ tcall.x[1] >= 0) =>
        LET obj == objs[tcall.obj]
            rs == obj.target_ranges
            a == tcall.x[1]
            i == C7_Containing(rs, a)
        IN  /\ tcall.res.ok
            /\ tcall.res.val =
                 QAdd(C7_WidthBefore(rs, obj.omit_scale, i),
                      QMul(QInt(a - rs[i].start),
                           C7_LocalScale(rs[i], obj.omit_scale)))
            /\ a = rs[i].start =>
                 tcall.res.val = obj.precomputed_offsets[a][1]

\* C7 witness: get_x on an address inside the third member, after a KEEP
\* and an OMIT member, with an omit_scale other than 0 and 1.
C7_Witness ==
    /\ tcall.op = "get_x"
    /\ LET rs == objs[tcall.obj].target_ranges
           a == tcall.x[1]
       IN  /\ Len(rs) >= 3
           /\ a > rs[3].start
           /\ rs[1].rtype # rs[2].rtype
           /\ objs[tcall.obj].omit_scale \notin {QInt(0), QInt(1)}

\* C8: for every complete partition installed with update_range and every
\* address a inside a KEEP member, get_x_inv(get_x(a)) = a.
C8_RoundTrip ==
    ( /\ tcall.op = "get_x_inv"
      /\ tcall.from >= 0
      /\ \E i \in DOMAIN objs[tcall.obj].target_ranges :
            /\ objs[tcall.obj].target_ranges[i].rtype = T_KEEP
            /\ InRange(objs[tcall.obj].target_ranges[i], tcall.from) )
    => tcall.res = Ok(QInt(tcall.from))

\* C9: the handle inverted() returns has, when it is returned, the
\* target_ranges, the omit_scale and the _precomputed_offsets of the
\* transform it was made from.
C9_HandleSharesIndex ==
    tcall.op = "inverted" =>
        /\ objs[tcall.made].target_ranges = objs[tcall.obj].target_ranges
        /\ objs[tcall.made].omit_scale = objs[tcall.obj].omit_scale
        /\ objs[tcall.made].precomputed_offsets = objs[tcall.obj].precomputed_offsets

\* C10: in every state in which a query can be issued, the precomputed index
\* of every transform object is the one of its current target_ranges and
\* omit_scale.
C10_IndexCurrent ==
    \A o \in DOMAIN objs :
        objs[o].precomputed_offsets =
            precompute_offsets(objs[o].target_ranges, objs[o].omit_scale)

----------------------------------------------------------------------------
(* Claims about ranges of unknown type in the transform *)

\* displayed width of the members 1 .. j of a list of KEEP and OMIT members
RECURSIVE C11_WidthThrough(_, _, _)
C11_WidthThrough(rs, omit_scale, j) ==
    IF j < 1 THEN QInt(0)
    ELSE QAdd(C11_WidthThrough(rs, omit_scale, j - 1),
              SizeTimes(rs[j], IF rs[j].rtype = T_KEEP THEN QInt(1)
                               ELSE omit_scale))

\* the scan for x goes past member j: the member is KEEP or OMIT and x lies
\* beyond its displayed end
C11_GoesPast(rs, omit_scale, j, x) ==
    /\ rs[j].rtype \in {T_KEEP, T_OMIT}
    /\ QGreater(x, C11_WidthThrough(rs, omit_scale, j))

\* the scan for x reaches member k
C11_Reaches(rs, omit_scale, k, x) ==
    \A j \in 1..(k - 1) : C11_GoesPast(rs, omit_scale, j, x)

\* C11: get_x_inv(x) ends with a ValueError and returns no address whenever
\* its scan over target_ranges, in list order, reaches a member whose type is
\* neither KEEP nor OMIT before it reaches the member that contains x; such
\* a member is never taken for a KEEP or an OMIT member.
C11_UnknownRangeIsAnError ==
    tcall.op = "get_x_inv" =>
        LET obj == objs[tcall.obj]
            rs == obj.target_ranges
        IN  \A k \in DOMAIN rs :
                ( /\ rs[k].rtype \notin {T_KEEP, T_OMIT}
                  /\ C11_Reaches(rs, obj.omit_scale, k, tcall.x) )
                => tcall.res = Raise("ValueError")

\* C11 witness: get_x_inv went past a KEEP or OMIT member, reached a member
\* of unknown type that has a KEEP or OMIT member behind it, and raised.
C11_Witness ==
    /\ tcall.op = "get_x_inv"
    /\ LET obj == objs[tcall.obj]
           rs == obj.target_ranges
       IN  /\ Len(rs) >= 3
           /\ rs[2].rtype = T_UNKN
           /\ rs[3].rtype # T_UNKN
           /\ C11_Reaches(rs, obj.omit_scale, 2, tcall.x)
    /\ tcall.res = Raise("ValueError")

----------------------------------------------------------------------------
(* Claims about the plot: builder, axes and transform together *)

\* the omit ranges of a builder with size_limit 0 that inspected
\* [0x1000, 0x2000) and [0x5000, 0x6000) were installed on new axes
C12_Scenario ==
    /\ acall.op = "set_omit_ranges"
    /\ acall.err = "none"
    /\ acall.omit_before = <<>>
    /\ acall.limit = 0
    /\ acall.inspected = { Range(4096, 8192, T_KEEP),
                           Range(20480, 24576, T_KEEP) }

\* C12 as stated: in the scenario omit_scale = 0.05 x 0x2000 / (0x10000 -
\* 0x2000), forward(0x1000) = 0, forward(0x1FFF) = 0xFFF and forward(0x5000)
\* = 0x1000 + 0x3000 x omit_scale.
C12_Original ==
    C12_Scenario =>
        /\ objs[1].omit_scale = Q(8192, 20 * (65536 - 8192))
        /\ (tcall.op = "get_x" /\ tcall.x = QInt(4096)) =>
                tcall.res = Ok(QInt(0))
        /\ (tcall.op = "get_x" /\ tcall.x = QInt(8191)) =>
                tcall.res = Ok(QInt(4095))
        /\ (tcall.op = "get_x" /\ tcall.x = QInt(20480)) =>
                tcall.res = Ok(QAdd(QInt(4096),
                                    QMul(QInt(12288), objs[1].omit_scale)))

\* C12, amended: in the scenario the installed partition is [0, 0x1000) OMIT,
\* [0x1000, 0x2000) KEEP, [0x2000, 0x5000) OMIT, [0x5000, 0x6000) KEEP,
\* [0x6000, inf) OMIT; omit_scale = 0.05 x 0x2000 / 0x4000, the OMIT tail
\* without end not counted; forward(0x1000) = 0x1000 x omit_scale,
\* forward(0x1FFF) = 0x1000 x omit_scale + 0xFFF and forward(0x5000) =
\* 0x1000 x omit_scale + 0x1000 + 0x3000 x omit_scale.
C12_ScenarioAsInstalled ==
    C12_Scenario =>
        /\ objs[1].target_ranges =
              << Range(0, 4096, T_OMIT), Range(4096, 8192, T_KEEP),
                 Range(8192, 20480, T_OMIT), Range(20480, 24576, T_KEEP),
                 Range(24576, Inf, T_OMIT) >>
        /\ objs[1].omit_scale = Q(8192, 20 * 16384)
        /\ (tcall.op = "get_x" /\ tcall.x = QInt(4096)) =>
                tcall.res = Ok(Q(4096, 40))
        /\ (tcall.op = "get_x" /\ tcall.x = QInt(8191)) =>
                tcall.res = Ok(QAdd(Q(4096, 40), QInt(4095)))
        /\ (tcall.op = "get_x" /\ tcall.x = QInt(20480)) =>
                tcall.res = Ok(QAdd(QAdd(Q(4096, 40), QInt(4096)),
                                    Q(12288, 40)))

\* C12 witness: in the scenario, forward(0x5000) was asked.
C12_Witness ==
    /\ C12_Scenario
    /\ tcall.op = "get_x"
    /\ tcall.x = QInt(20480)

----------------------------------------------------------------------------
(* Claims about Range and RangeSet *)

C13_Ordered(r) == r.start <= r.end /\ Size(r) >= 0

\* every Range the builder holds or was handed
C13_Ranges ==
    SeqRange(ranges) \cup submitted \cup SeqRange(bcall.before)
    \cup SeqRange(bcall.calls) \cup {bcall.arg}

\* the step is the builder call that makes a Range of the addresses a and b
C13_Constructed(a, b) ==
    /\ bcall'.arg \in {Range(a, b, T_KEEP), Range(a, b, T_UNKN)}
    /\ UpdateRegions(a, b) \/ InspectRange(a, b)

\* C13: every Range has start <= end and size = end - start >= 0 in every
\* reachable state: Range(a, b) stores start = min(a, b) and end = max(a, b)
\* whichever of a and b is given first, and the assignments to r.start and
\* r.end in _update_regions never leave a member of the builder's list with
\* start > end.
C13_RangeOrdered ==
    /\ [](\A r \in C13_Ranges : C13_Ordered(r))
    /\ [][\A a \in PageAddrs, b \in PageAddrs :
            C13_Constructed(a, b) =>
                /\ bcall'.arg.start = (IF a <= b THEN a ELSE b)
                /\ bcall'.arg.end = (IF a <= b THEN b ELSE a)
                /\ bcall'.arg.end - bcall'.arg.start >= 0]_vars

\* C13 witness: a call given its addresses as a range shrank a member at its
\* end by assigning r.end, and the member stayed in the list.
C13_Witness ==
    /\ bcall.op = "update_regions"
    /\ bcall.arg.start < bcall.arg.end
    /\ \E i \in DOMAIN bcall.before :
         /\ CrossesEnd(bcall.arg, bcall.before[i])
         /\ <<bcall.before[i].start, bcall.arg.start>> \in Pairs(ranges)
         /\ <<bcall.before[i].start, bcall.arg.start>> \notin Pairs(bcall.before)

\* the filter list the last call on the axes was made on, as it was before
C14_List == IF acall.which = "omit" THEN acall.omit_before
            ELSE acall.include_before

\* positions of the members with r.start < target.end and target.start < r.end
C14_Expected(rs, target) ==
    {i \in DOMAIN rs : rs[i].start < target.end /\ target.start < rs[i].end}

C14_ListsUnchanged ==
    omit_filters = acall.omit_before /\ include_filters = acall.include_before

\* C14: match_overlap_range(target) returns exactly the members r of the list
\* with r.start < target.end and target.start < r.end, in the order of the
\* list, and leaves the list unchanged; a member [0, 10) is not returned for
\* the target [10, 20) and is returned for the target [9, 20).
\* first_overlap_range returns the first such member, or None when there is
\* none.
C14_MatchOverlap ==
    /\ acall.op = "match_overlap_range" =>
          LET m == acall.matched IN
          /\ SeqRange(m) = C14_Expected(C14_List, acall.target)
          /\ \A k \in 1..(Len(m) - 1) : m[k] < m[k + 1]
          /\ C14_ListsUnchanged
          /\ \A i \in DOMAIN C14_List :
                Pair(C14_List[i]) = <<0, 10>> =>
                    /\ Pair(acall.target) = <<10, 20>> => i \notin SeqRange(m)
                    /\ Pair(acall.target) = <<9, 20>> => i \in SeqRange(m)
    /\ acall.op = "first_overlap_range" =>
          LET e == C14_Expected(C14_List, acall.target) IN
          /\ acall.first = (IF e = {} THEN 0
                            ELSE CHOOSE i \in e : \A j \in e : i <= j)
          /\ C14_ListsUnchanged

\* C14 witness: match_overlap_range([10, 20)) on a list of three members
\* that holds [0, 10) returned two members and not [0, 10).
C14_Witness ==
    /\ acall.op = "match_overlap_range"
    /\ Pair(acall.target) = <<10, 20>>
    /\ Len(C14_List) = 3
    /\ <<0, 10>> \in Pairs(C14_List)
    /\ Len(acall.matched) = 2

----------------------------------------------------------------------------
(* Claims about the filter lists of the axes *)

\* the other list of the last _filter call, as it was before
C16_Other == IF acall.which = "omit" THEN acall.include_before
             ELSE acall.omit_before

\* the requested range overlaps a member of the other list
C16_InOther ==
    \E i \in DOMAIN C16_Other :
        /\ C16_Other[i].start < acall.target.end
        /\ acall.target.start < C16_Other[i].end

\* C16: a _filter call for a range that overlaps a range of the other filter
\* list raises ValueError, and both filter lists are afterwards what they
\* were before the call.
C16_RejectedAddsNothing ==
    (acall.op = "filter" /\ C16_InOther) =>
        /\ acall.err = "ValueError"
        /\ omit_filters = acall.omit_before
        /\ include_filters = acall.include_before

\* C16 witness: a request that overlaps a member of the other list and a
\* member of its own list was rejected.
C16_Witness ==
    /\ acall.op = "filter"
    /\ C16_InOther
    /\ Len(acall.matched) > 0
    /\ acall.err = "ValueError"

\* C17: a + b is the range from min(a.start, b.start) to max(a.end, b.end),
\* and when _filter extends a range of the list with the requested one, the
\* range it stores has the type of the list, OMIT in omit_filters and KEEP in
\* include_filters, never UNKNOWN.
C17_MergedKeepsKind ==
    /\ (acall.op = "filter" /\ acall.err = "none" /\ Len(acall.matched) = 1) =>
          LET old == C14_List[acall.matched[1]]
              now == IF acall.which = "omit" THEN omit_filters
                     ELSE include_filters
              stored == now[Len(now)]
          IN  /\ Len(now) = Len(C14_List) + 1
              /\ stored.start = Min(old.start, acall.target.start)
              /\ stored.end = Max(old.end, acall.target.end)
              /\ stored.rtype = (IF acall.which = "omit" THEN T_OMIT
                                 ELSE T_KEEP)
    /\ \A i \in DOMAIN omit_filters : omit_filters[i].rtype = T_OMIT
    /\ \A i \in DOMAIN include_filters : include_filters[i].rtype = T_KEEP

----------------------------------------------------------------------------
(* Claims about capabilities and nodes *)

\* 2^64 = MAX_ADDR + 1
C18_TwoTo64 == <<1, 1>>

\* n mod 2^64 for 0 <= n < 2^65: n = q * MAX_ADDR + r = q * 2^64 + (r - q)
C18_Mod2to64(n) ==
    IF n[2] - n[1] >= 0 THEN <<0, n[2] - n[1]>>
    ELSE <<1, 1 + n[2] - n[1]>>

\* C18: for every capability with base and length set, bound = (base +
\* length) mod 2^64; base = 0 with length = 2^64 - 1 gives bound = 2^64 - 1,
\* and bound < base only when base + length >= 2^64.
C18_BoundMod2to64 ==
    (ccall.op = "bound" /\ cap.given) =>
        LET sum == WAdd(cap.base, cap.length) IN
        /\ ccall.res = CapValue(C18_Mod2to64(sum))
        /\ (cap.base = <<0, 0>> /\ cap.length = <<1, 0>>) =>
               ccall.res.val = <<1, 0>>
        /\ WLess(ccall.res.val, cap.base) => ~WLess(sum, C18_TwoTo64)

\* bit k of the bitmap n
C19_Bit(n, k) == (n \div (2 ^ k)) % 2 = 1

\* some bit of perm is set in the bitmap
C19_Set(permissions, perm) ==
    \E k \in 0..10 : C19_Bit(perm, k) /\ C19_Bit(permissions, k)

\* C19: has_perm(bit) returns True if and only if the bit is set in the
\* permissions of the capability and False in every other case; when the
\* permissions are None it returns False and does not fail.
C19_HasPerm ==
    ccall.op = "has_perm" =>
        /\ ccall.res.ok
        /\ ccall.res.flag <=> (cap.given /\ C19_Set(cap.permissions, ccall.perm))

\* the kind of the entry a call adds
C20_Kind(call) ==
    IF call.op = "add_load" THEN DEREF_LOAD
    ELSE IF call.op = "add_store" THEN DEREF_STORE
    ELSE IF call.op = "add_call" THEN DEREF_CALL
    ELSE call.type

\* C20: after N calls of add_deref, add_load, add_store and add_call on one
\* node the time, addr, is_cap and type columns of the dereference table all
\* have length N, and entry i holds the arguments of call i with the kind
\* passed at that call, LOAD, STORE and CALL for the three shortcuts; equal
\* entries are kept, and no call changes or removes an earlier entry.
C20_LogInCallOrder ==
    /\ Len(deref.time) = Len(dcalls)
    /\ Len(deref.addr) = Len(dcalls)
    /\ Len(deref.is_cap) = Len(dcalls)
    /\ Len(deref.type) = Len(dcalls)
    /\ \A i \in DOMAIN dcalls :
         /\ deref.time[i] = dcalls[i].time
         /\ deref.addr[i] = dcalls[i].addr
         /\ deref.is_cap[i] = dcalls[i].is_cap
         /\ deref.type[i] = C20_Kind(dcalls[i])

\* C20 witness: three calls, the second equal to the first, the third a
\* shortcut of another kind.
C20_Witness ==
    /\ Len(dcalls) = 3
    /\ dcalls[1] = dcalls[2]
    /\ dcalls[1].op = "add_deref"
    /\ dcalls[3].op = "add_call"
    /\ C20_Kind(dcalls[1]) = DEREF_STORE
    /\ deref.type = <<DEREF_STORE, DEREF_STORE, DEREF_CALL>>

----------------------------------------------------------------------------
(* C21: NodeData.from_operand *)

C21_Invalid(op) == ~op.is_register \/ ~op.is_capability

\* the node from_operand is described to return for a valid operand
C21_Made(op) ==
    /\ ~node.cap.none
    /\ node.cap.reg.given
    /\ node.cap.reg.base = op.value.base
    /\ node.cap.reg.length = op.value.length
    /\ node.cap.reg.permissions = op.value.permissions
    /\ node.cap.t_alloc = op.cycles
    /\ node.pc = Some(op.pc)
    /\ node.is_kernel = op.kernel
    /\ node.cap.t_free = -1
    /\ node.origin = UNKNOWN
    /\ node.deref = [time |-> <<>>, addr |-> <<>>, is_cap |-> <<>>,
                     type |-> <<>>]

\* C21: from_operand(op) fails with the invalid-operand error (the ValueError
\* "Operand is not a capability") and returns no node when op is not a
\* register or not a capability; otherwise it returns a node whose
\* capability is copied from the operand, with t_alloc the cycle count of the
\* event, pc and is_kernel those of the event, t_free = -1, origin UNKNOWN and
\* an empty dereference table.
C21_FromOperand ==
    fcall.op = "from_operand" =>
        IF C21_Invalid(fcall.operand)
        THEN ~fcall.returned /\ fcall.err = "ValueError"
        ELSE fcall.returned /\ fcall.err = "none" /\ C21_Made(fcall.operand)

\* the part of C21 about valid operands, and the absence of a node otherwise
C21_ValidOperand ==
    fcall.op = "from_operand" =>
        IF C21_Invalid(fcall.operand) THEN ~fcall.returned
        ELSE fcall.returned /\ fcall.err = "none" /\ C21_Made(fcall.operand)

----------------------------------------------------------------------------
(* C22: the consumers and an overflowed node *)

\* the last call skipped its node: nothing accumulated changed, no Range was
\* built from the node's base and bound, and the pass goes on
C22_Skipped ==
    /\ icall.err = "none"
    /\ pass.state = "running"
    /\ ~icall.built
    /\ Accumulated = icall.before

\* C22: each consumer that derives an address interval from the capability
\* (the omit builder, the patch builders, the dataset of the size histogram)
\* skips a node whose capability is overflowed (bound < base): its
\* accumulated state stays as it was, it builds no Range from the base and
\* the bound, and the pass continues with the next node.
C22_OverflowedSkipped ==
    (icall.op # "none" /\ icall.overflowed) => C22_Skipped

\* the same for the builders of address_map.py alone
C22_AddressMapBuildersSkip ==
    (icall.op \in {"omit_builder", "patch_builder"} /\ icall.overflowed)
        => C22_Skipped

----------------------------------------------------------------------------
(* C23: the graph only grows *)

\* vertex v is as it was, or it was live and the step freed it: only t_free
\* of its capability changed, from -1 to the cycle of the free
C23_KeptOrFreed(v) ==
    \/ vertices'[v] = vertices[v]
    \/ /\ gcall'.op = "free" /\ gcall'.vertex = v
       /\ vertices[v].cap.t_free = -1
       /\ vertices'[v] = [vertices[v] EXCEPT !.cap.t_free = gcall'.cycle]

\* C23: over any sequence of events of the graph construction the vertices
\* and the derivation edges only grow: none that was added is removed, and
\* freeing a capability changes only t_free of the capability of its vertex
\* (from -1 to the cycle of the free), the vertex and its edges staying.
C23_AppendOnly ==
    [][ /\ Len(vertices') >= Len(vertices)
        /\ edges \subseteq edges'
        /\ \A v \in DOMAIN vertices : C23_KeptOrFreed(v) ]_vars

\* C23 witness: a vertex with a derivation edge out of it and one into it
\* has just been freed
C23_Witness ==
    /\ gcall.op = "free"
    /\ vertices[gcall.vertex].cap.t_free = gcall.cycle
    /\ \E e \in edges : e[1] = gcall.vertex
    /\ \E e \in edges : e[2] = gcall.vertex

----------------------------------------------------------------------------
(* C24: the partition installed on new axes *)

\* the list the last set_omit_ranges handed to update_range
C24_Installed == objs[1].target_ranges

\* the number of members of P that hold address a
C24_Holders(P, a) == Cardinality({i \in DOMAIN P : P[i].start <= a /\ a < P[i].end})

C24_Complete(P) ==
    /\ Len(P) >= 1
    /\ P[1].start = 0
    /\ P[Len(P)].end = Inf
    /\ \A i \in DOMAIN P : P[i].rtype \in {T_KEEP, T_OMIT}
    /\ \A i \in 1..(Len(P) - 1) :
          P[i].start <= P[i + 1].start /\ P[i].end = P[i + 1].start
    /\ \A i \in DOMAIN P, j \in DOMAIN P : i # j => P[i] # P[j]
    /\ \A a \in PlotQueries \cup {0, 1, Inf - 1} : C24_Holders(P, a) = 1

\* C24: for a size_limit >= 0 and any sequence of inspections of the builder,
\* the list that set_omit_ranges(builder.get_omit_ranges()) hands to
\* update_range on new axes is a complete partition: in ascending order of
\* start, of KEEP and OMIT members only, each member ending where the next
\* starts, every address of [0, inf) in exactly one member and no member
\* twice.
C24_CompletePartition ==
    (acall.op = "set_omit_ranges" /\ acall.err = "none")
        => C24_Complete(C24_Installed)

\* the same when no omit range of the builder is empty
C24_NoEmptyOmitRange ==
    (/\ acall.op = "set_omit_ranges" /\ acall.err = "none"
     /\ \A i \in DOMAIN acall.pairs : acall.pairs[i][1] < acall.pairs[i][2])
        => C24_Complete(C24_Installed)

----------------------------------------------------------------------------
(* C25: the order of the region updates *)

\* the calls made so far, taken in the order p
C25_Reordered(p) == [k \in DOMAIN order |-> order[p[k]]]

\* the builder's list when the calls are made in the order p from the
\* initial list
C25_RangesAfter(p) ==
    ApplyCalls(<< Range(0, Inf, T_OMIT) >>, C25_Reordered(p), 1, size_limit)

\* C25: the final OMIT set does not depend on the order of inspection: for
\* the ranges handed to _update_regions from the initial state, every other
\* order of the same calls ends with the same set of (start, end) pairs.
C25_OrderIndependent ==
    \A p \in Permutations(DOMAIN order) :
        Pairs(C25_RangesAfter(p)) = Pairs(ranges)

\* C25 witness: three different ranges were submitted, the last of them
\* overlapping one submitted before, and two omit ranges are left, one of
\* them cut at an address off the page boundaries
C25_Witness ==
    /\ Len(order) = 3
    /\ Cardinality(SeqRange(order)) = 3
    /\ Overlaps(order[3], order[1]) \/ Overlaps(order[3], order[2])
    /\ Len(ranges) = 2
    /\ \E i \in DOMAIN ranges : ranges[i].start = 1000

----------------------------------------------------------------------------
(* C26: no omit range below size_limit *)

\* C26: after any sequence of region updates from the initial state every
\* member of the builder's OMIT set has size >= size_limit, and with the
\* size_limit of 4096 that the builder starts with, no member is empty.
C26_NoSliver ==
    \A i \in DOMAIN ranges :
        /\ Size(ranges[i]) >= size_limit
        /\ size_limit = DefaultSizeLimit => Size(ranges[i]) > 0

\* C26 witness: after a split and a shrink a member of exactly size_limit is
\* left between two ranges of interest
C26_Witness ==
    /\ Len(order) >= 2
    /\ bcall.op = "update_regions"
    /\ \E i \in DOMAIN ranges :
          /\ Size(ranges[i]) = size_limit
          /\ \E j \in DOMAIN order : order[j].end = ranges[i].start
          /\ \E j \in DOMAIN order : order[j].start = ranges[i].end

----------------------------------------------------------------------------
(* C27: inverting twice *)

\* the transform that object o was made from by two calls of inverted(),
\* or 0
C27_Origin(o) == IF parent[o] = 0 THEN 0 ELSE parent[parent[o]]

\* C27: inverting twice gives back the forward map: for a transform t with
\* an installed partition and an address a >= 0, t.inverted().inverted()
\* applied to a returns the display coordinate that t applied to a returns.
C27_TwiceInverted ==
    (/\ tcall.op = "transform_x"
     /\ tcall.x[1] >= 0
     /\ C27_Origin(tcall.obj) # 0
     /\ ~objs[C27_Origin(tcall.obj)].inverse
     /\ objs[C27_Origin(tcall.obj)].target_ranges = objs[tcall.obj].target_ranges)
        => tcall.res = transform_x(objs[C27_Origin(tcall.obj)], tcall.x)

----------------------------------------------------------------------------
(* C28: a handle and a later update *)

\* the last call took address a through t and back through a handle of t
\* that differs from t in its partition: t was updated after inverted()
C28_AfterUpdate ==
    /\ tcall.op = "round_trip"
    /\ objs[parent[tcall.obj]].target_ranges # objs[tcall.obj].target_ranges

\* the address of the last call lies in a KEEP range of t's partition
C28_InKeep ==
    \E i \in DOMAIN objs[parent[tcall.obj]].target_ranges :
        /\ objs[parent[tcall.obj]].target_ranges[i].rtype = T_KEEP
        /\ InRange(objs[parent[tcall.obj]].target_ranges[i], tcall.from)

\* C28: an inverse handle never answers from an outdated partition: when
\* h = t.inverted() was obtained and update_range(P) is applied to t
\* afterwards, a query on h is computed with P and the omit_scale derived
\* from P, so that h(t(a)) = a for every address a in a KEEP range of P.
C28_HandleFollowsUpdate ==
    C28_AfterUpdate =>
        /\ tcall.res = get_x_inv(objs[parent[tcall.obj]], tcall.x)
        /\ C28_InKeep => tcall.res = Ok(QInt(tcall.from))

----------------------------------------------------------------------------
(* C29: set_omit_ranges called more than once *)

\* C29: after any sequence of set_omit_ranges calls on the same axes, each
\* with a list of ranges none of which overlaps another, no two members of
\* omit_filters overlap, so the test of _filter that at most one member
\* overlaps a new range never fails.
C29_FiltersDisjoint ==
    /\ \A i \in DOMAIN omit_filters, j \in DOMAIN omit_filters :
          i # j => ~Overlaps(omit_filters[i], omit_filters[j])
    /\ acall.op = "set_omit_ranges" => acall.err # "AssertionError"

\* the test of _filter did not fail so far
C29_NoAssertionError ==
    acall.op = "set_omit_ranges" => acall.err # "AssertionError"

----------------------------------------------------------------------------
(* C30: the forward map is monotone *)

\* address a lies in a KEEP range of the partition of the transform
C30_InKeep(a) ==
    \E i \in DOMAIN objs[1].target_ranges :
        /\ objs[1].target_ranges[i].rtype = T_KEEP
        /\ InRange(objs[1].target_ranges[i], a)

\* p <= q, and p < q, on finite numbers
C30_LessEq(p, q) == QFinite(p) /\ QFinite(q) /\ ~QGreater(p, q)
C30_Less(p, q) == QGreater(q, p)

\* C30: the forward map is monotone: for a complete partition installed with
\* update_range and addresses 0 <= a <= b, get_x(a) <= get_x(b), and
\* get_x(a) < get_x(b) when a < b and both lie in KEEP ranges.
C30_Monotone ==
    (tcall.op = "get_x" /\ tcall.x[1] >= 0) =>
        \A a \in 0..tcall.x[1] :
            /\ C30_LessEq(get_x(objs[1], a), tcall.res.val)
            /\ (a < tcall.x[1] /\ C30_InKeep(a) /\ C30_InKeep(tcall.x[1]))
                  => C30_Less(get_x(objs[1], a), tcall.res.val)

\* C30 witness: with [0, 1) KEEP, [1, 2) OMIT, [2, inf) KEEP installed
\* (omit_scale 1/20), get_x(3) returned 1 + 1/20 + 1
C30_Witness ==
    /\ tcall.op = "get_x"
    /\ tcall.x = QInt(3)
    /\ objs[1].target_ranges = << Range(0, 1, T_KEEP), Range(1, 2, T_OMIT),
                                  Range(2, Inf, T_KEEP) >>
    /\ tcall.res = Ok(Q(41, 20))

====
